---- MODULE Spec2Model ----
(***************************************************************************)
(* Model of the job recommendation system: the recommendation pipeline     *)
(* (utils/model_utils.py and resume_job_matcher/utils/job_matcher.py), the *)
(* filter / sort / display step of app.py, the text normalizer             *)
(* (utils/preprocessing.py, resume_job_matcher/utils/resume_processor.py)  *)
(* the train-or-load model lifecycle, the error handling of one request,   *)
(* the cached loader and the session state across script runs, the         *)
(* category prediction and the sampling of the training pairs.             *)
(*                                                                         *)
(* Python positions are 0-based; the model's sequences are 1-based, so the *)
(* catalog row at Python position k is row k+1 here.                       *)
(***************************************************************************)
EXTENDS Integers, Sequences, FiniteSets, TLC

(***************************************************************************)
(* Bounds of the model.                                                    *)
(***************************************************************************)
\* largest catalog (number of rows of the CSV)
MaxRows == 3
\* match scores are the sigmoid outputs in [0, 1], quantised to 0..MaxScore
MaxScore == 2
\* longest input text of the normalizer, in characters
MaxLen == 4
\* number of process startups followed in the lifecycle
MaxStartups == 3
\* executions of the loader body followed in one server process
MaxLoads == 2
\* largest sample_size handed to the pair sampler
MaxPairs == 2
\* resolution of a probability: the values are 0/ProbScale .. ProbScale/ProbScale
ProbScale == 100

(***************************************************************************)
(* State.                                                                  *)
(***************************************************************************)
VARIABLES
    variant,             \* which recommend_jobs is running
    df,                  \* the loaded catalog
    similarity_scores,   \* matching_model.predict(...).flatten()
    top_n,               \* the top_n argument
    rpc,                 \* position of the request
    recommendations,     \* value returned by recommend_jobs
    selected_category,   \* the category selectbox of app.py
    sort_option,         \* the sort selectbox of app.py
    displayed            \* the cards rendered by app.py

rvars == <<variant, df, similarity_scores, top_n, rpc, recommendations,
           selected_category, sort_option, displayed>>

VARIABLES
    resume_text,     \* the raw text
    fixed,           \* fix_spacing(resume_text)
    cleaned,         \* preprocess_resume(resume_text)
    cleaned_again,   \* preprocess_resume(preprocess_resume(resume_text))
    tpc              \* what has been computed

tvars == <<resume_text, fixed, cleaned, cleaned_again, tpc>>

VARIABLES
    app,                \* which application the process runs
    files,              \* the files present in the models directory
    lpc,                \* position of the process in its startup
    branch,             \* the branch the current startup took
    fitted,             \* the networks fit() was called on in this startup
    startups,           \* startups begun so far
    returned_untouched, \* a startup has returned and no file was removed since
    later               \* the current startup began in such a state

lvars == <<app, files, lpc, branch, fitted, startups, returned_untouched, later>>

VARIABLES
    csv_categories,       \* the categories occurring in the catalog CSV on disk
    checked_files,        \* the files present when the startup tested for them
    label_encoder,        \* classes_ of the process's label encoder
    model_classes,        \* classes_ the process's category model was trained on
    disk_model_classes,   \* the same for the category model file on disk
    disk_encoder_classes  \* classes_ stored in label_encoder.pkl

mvars == <<csv_categories, checked_files, label_encoder, model_classes,
           disk_model_classes, disk_encoder_classes>>

VARIABLES
    qapp,            \* which application serves the upload
    upload_ext,      \* how uploaded_file.name ends
    n_recs,          \* number of recommendations recommend_jobs returns
    category_filter, \* app.py: a category is selected in "Filter by category"
    n_filtered,      \* number of recommendations the card loop runs over
    qstage,          \* the statement of the try block the request is at
    raised_in,       \* the stage that raised, "none" when none did
    extracted,       \* text extraction has run
    normalized,      \* preprocess_resume has run
    category_shown,  \* the category prediction has been rendered
    cards_shown,     \* number of recommendation cards rendered
    errors_shown     \* number of times the except block ran st.error

qvars == <<qapp, upload_ext, n_recs, category_filter, n_filtered, qstage,
           raised_in, extracted, normalized, category_shown, cards_shown,
           errors_shown>>

VARIABLES
    sapp,           \* which application the server process runs
    spos,           \* per browser session: where its script run is
    sess,           \* per browser session: st.session_state
    run_objs,       \* per browser session: what the loader call returned to this run
    used,           \* per browser session: the loaded objects its last request has read
    load_raised,    \* per browser session: the loader raised in this run
    cached,         \* the st.cache_resource entry of the loader
    cached_writes,  \* writes made to the cached objects after they were cached
    loading_by,     \* the session executing the loader body, "none" when none is
    body_runs,      \* executions of the loader body begun in this process
    body_done       \* executions of the loader body that returned

svars == <<sapp, spos, sess, run_objs, used, load_raised, cached,
           cached_writes, loading_by, body_runs, body_done>>

VARIABLES
    cvariant,             \* which implementation predicts the category
    encoder_classes,      \* label_encoder.classes_
    category_probs,       \* the classifier's output, in units of 1/ProbScale
    cpc,                  \* "call" before the prediction, "done" or "raised" after it
    predicted_category,   \* the returned category
    category_confidence   \* the returned confidence, in units of 1/ProbScale

cvars == <<cvariant, encoder_classes, category_probs, cpc, predicted_category,
           category_confidence>>

VARIABLES
    pvariant,        \* which implementation builds the training pairs
    category_col,    \* the catalog's category column, one entry per row
    sample_size,     \* the sample_size argument
    X_resume,        \* rows whose embeddings were appended to X_resume
    X_job,           \* rows whose embeddings were appended to X_job
    y,               \* the labels appended
    pairs_created,   \* the loop counter
    ppc              \* "loop", "returned" or "raised"

pvars == <<pvariant, category_col, sample_size, X_resume, X_job, y,
           pairs_created, ppc>>

vars == <<rvars, tvars, lvars, mvars, qvars, svars, cvars, pvars>>

(***************************************************************************)
(* Program constants.                                                      *)
(***************************************************************************)
\* filtered_recommendations[:10]
DisplayLimit == 10

Categories == {"DataScience", "WebDev"}
\* the value pandas gives an empty cell of the CSV: the float NaN
NaN == "NaN"
\* Python's == on two cell values: NaN is equal to nothing, itself included
PyEq(a, b) == a = b /\ a # NaN
AllCategories == "All Categories"
HighToLow == "Match Score (High to Low)"
LowToHigh == "Match Score (Low to High)"
SortOptions == {HighToLow, LowToHigh}
Variants == {"model_utils", "job_matcher"}

Min(a, b) == IF a <= b THEN a ELSE b

(***************************************************************************)
(* Python list helpers.                                                    *)
(***************************************************************************)
\* list[:n] for n >= 0
Take(s, n) == SubSeq(s, 1, Min(n, Len(s)))

\* list.reverse()
Reverse(s) == [i \in 1..Len(s) |-> s[Len(s) + 1 - i]]

\* One step of a stable ascending sort: position p (with key keys[p]) goes
\* after every element already placed whose key is <= keys[p].
RECURSIVE InsertStable(_, _, _)
InsertStable(keys, p, placed) ==
    IF placed = <<>> THEN <<p>>
    ELSE IF keys[Head(placed)] <= keys[p]
         THEN <<Head(placed)>> \o InsertStable(keys, p, Tail(placed))
         ELSE <<p>> \o placed

\* The stable ascending order of the positions first..Len(keys): Python's
\* sort is stable, and a stable ascending order is unique.
RECURSIVE StableOrderFrom(_, _, _)
StableOrderFrom(keys, next, placed) ==
    IF next > Len(keys) THEN placed
    ELSE StableOrderFrom(keys, next + 1, InsertStable(keys, next, placed))

StableArgSort(keys) == StableOrderFrom(keys, 1, <<>>)

\* The order list.sort(reverse=True) / sorted(reverse=True) gives.  CPython
\* reverses the list, sorts it stably ascending and reverses it again, which
\* keeps equal keys in their original order (reversing the ascending order
\* alone would not).
\* faulty variant: the ascending order reversed, which turns ties around
ArgSortReverse_Unstable(keys) == Reverse(StableArgSort(keys))

ArgSortReverse(keys) ==
    LET n == Len(keys)
        rev == Reverse(keys)
        ord == StableArgSort(rev)
    IN  Reverse([i \in 1..n |-> n + 1 - ord[i]])

Permute(s, ord) == [i \in 1..Len(ord) |-> s[ord[i]]]

(***************************************************************************)
(* recommend_jobs                                                          *)
(***************************************************************************)
\* job_indices: job_embeddings_df.index.values / np.arange(len(job_embeddings_np))
\* faulty variant: every score paired with the first row
JobIndices_AllFirst(n) == [i \in 1..n |-> 1]

JobIndices(n) == [i \in 1..n |-> i]

\* list(zip(job_indices, similarity_scores))
Zip(a, b) == [i \in 1..Min(Len(a), Len(b)) |-> <<a[i], b[i]>>]

\* job_scores.sort(key=lambda x: x[1], reverse=True)
\* faulty variant: reverse=True left out
SortJobScores_Ascending(job_scores) ==
    Permute(job_scores,
            StableArgSort([i \in 1..Len(job_scores) |-> job_scores[i][2]]))

SortJobScores(job_scores) ==
    Permute(job_scores,
            ArgSortReverse([i \in 1..Len(job_scores) |-> job_scores[i][2]]))

\* job_scores[:top_n]
\* faulty variant: one row too many
TopSlice_OffByOne(job_scores, n) == Take(job_scores, n + 1)

TopSlice(job_scores, n) == Take(job_scores, n)

\* A job_id value is <<kind, row>>.  Its kind says what the three tests of
\* job_matcher.py see: "int" (a numeric column), "nan" (an empty cell of a
\* string column), "str" (a non-blank string that does not start with '['),
\* "bracketed" (a string starting with '[') and "blank" (a string of
\* whitespace only).
\* isinstance(job_id, str)
IsStr(job_id) == job_id[1] \in {"str", "bracketed", "blank"}

\* job_id.strip() is not empty
NonBlank(job_id) == job_id[1] # "blank"

\* job_id.startswith('[')
StartsWithBracket(job_id) == job_id[1] = "bracketed"

\* job_info['job_id'] if 'job_id' in job_info else f"[{idx}]"
RjmJobId(job_info, idx) ==
    IF "job_id" \in DOMAIN job_info THEN job_info.job_id
    ELSE <<"bracketed", idx>>

\* job_matcher.py: a job_id that is a non-blank string not starting with '['
\* is appended to the title, f"{title} [{job_id}]"; every other job_id
\* leaves the title alone.
RjmTitle(job_info, idx) ==
    LET job_id == RjmJobId(job_info, idx)
    IN  IF IsStr(job_id) /\ NonBlank(job_id) /\ ~StartsWithBracket(job_id)
        THEN <<job_info.job_title, " [", job_id, "]">>
        ELSE job_info.job_title

\* The dictionary appended for one selected row.  idx is not a key of the
\* Python dictionary: it records the catalog position the row was read from
\* (df.loc[idx] / df.iloc[idx]).
\* faulty variant: the skills are read from the description column
BuildRec_SkillsFromDescription(v, dfv, idx, score) ==
    LET job_info == dfv[idx]
    IN  IF v = "model_utils"
        THEN [idx |-> idx,
              job_id |-> job_info.job_id,
              job_title |-> job_info.job_title,
              category |-> job_info.category,
              job_description |-> job_info.job_description,
              skills |-> job_info.job_description,
              similarity_score |-> score]
        ELSE [idx |-> idx,
              job_title |-> RjmTitle(job_info, idx),
              category |-> job_info.category,
              skills |-> job_info.job_description,
              similarity_score |-> score]

BuildRec(v, dfv, idx, score) ==
    LET job_info == dfv[idx]
    IN  IF v = "model_utils"
        THEN [idx |-> idx,
              job_id |-> job_info.job_id,
              job_title |-> job_info.job_title,
              category |-> job_info.category,
              job_description |-> job_info.job_description,
              skills |-> job_info.job_skill_set,
              similarity_score |-> score]
        ELSE [idx |-> idx,
              job_title |-> RjmTitle(job_info, idx),
              category |-> job_info.category,
              skills |-> job_info.job_skill_set,
              similarity_score |-> score]

RecommendJobs(v, dfv, scoresv, n) ==
    LET job_indices == JobIndices(Len(scoresv))
        job_scores == SortJobScores(Zip(job_indices, scoresv))
        top == TopSlice(job_scores, n)
    IN  [i \in 1..Len(top) |-> BuildRec(v, dfv, top[i][1], top[i][2])]

(***************************************************************************)
(* app.py: filter, sort and display of the recommendations                 *)
(***************************************************************************)
\* list(set([rec['category'] for rec in recommendations]))
\* faulty variant: every category of the catalog is offered
RecCategories_WholeCatalog(recs) == Categories

\* (a NaN category is an element of the set like any other value, and the
\* selectbox offers it as "nan")
RecCategories(recs) == {recs[i].category : i \in 1..Len(recs)}

\* ["All Categories"] + rec_categories
FilterChoices(recs) == {AllCategories} \cup RecCategories(recs)

RECURSIVE SelectSeq2(_, _)
SelectSeq2(recs, cat) ==
    IF recs = <<>> THEN <<>>
    ELSE IF PyEq(Head(recs).category, cat)
         THEN <<Head(recs)>> \o SelectSeq2(Tail(recs), cat)
         ELSE SelectSeq2(Tail(recs), cat)

\* if selected_category != "All Categories": [rec for rec in recommendations
\*                                            if rec['category'] == selected_category]
\* faulty variant: the selection ignored
FilterByCategory_None(recs, sel) == recs

FilterByCategory(recs, sel) ==
    IF sel # AllCategories THEN SelectSeq2(recs, sel) ELSE recs

\* sorted(filtered_recommendations, key=similarity_score[, reverse=True])
\* faulty variant: the sort option ignored
SortForDisplay_AlwaysDescending(recs, opt) ==
    Permute(recs, ArgSortReverse([i \in 1..Len(recs) |-> recs[i].similarity_score]))

SortForDisplay(recs, opt) ==
    LET keys == [i \in 1..Len(recs) |-> recs[i].similarity_score]
    IN  IF opt = LowToHigh
        THEN Permute(recs, StableArgSort(keys))
        ELSE Permute(recs, ArgSortReverse(keys))

\* the cards rendered: filtered_recommendations[:10]
DisplayedCards(recs, sel, opt) ==
    Take(SortForDisplay(FilterByCategory(recs, sel), opt), DisplayLimit)

(***************************************************************************)
(* State of one request of the recommendation pipeline.                    *)
(***************************************************************************)

\* The job_id column of one CSV, as pandas reads it: integers, strings of one
\* of the three kinds, or strings in some rows and empty cells in the others.
\* The column is there in every catalog (the catalog file of the
\* specification has it, and model_utils reads it without a test).
IdKinds == {"int", "str", "bracketed", "blank", "mixed"}

\* the kind of the job_id of row i in a column of kind col
KindAt(col, i) ==
    IF col = "mixed" THEN (IF i % 2 = 1 THEN "str" ELSE "nan") ELSE col

\* The catalog row at position i.

Row(i, c, kind) ==
    [job_id |-> <<kind, i>>,
     job_title |-> <<"title", i>>,
     job_description |-> <<"description", i>>,
     job_skill_set |-> <<"skills", i>>,
     category |-> c]

\* The category column of a catalog of n rows: a label in every row, or an
\* empty cell (NaN) in some of them.  No statement reads both the job_id and
\* the category of a row, so the catalogs with empty category cells are
\* taken with integer job_ids only.
CategoryCells(n, kind) ==
    [1..n -> IF kind = "int" THEN Categories \cup {NaN} ELSE Categories]

CatalogsOf(n, kind) ==
    {[i \in 1..n |-> Row(i, cs[i], KindAt(kind, i))] : cs \in CategoryCells(n, kind)}

Catalogs == UNION {CatalogsOf(n, kind) : n \in 0..MaxRows, kind \in IdKinds}

ScoreVectors(n) == [1..n -> 0..MaxScore]

RecInit ==
    /\ variant \in Variants
    /\ df \in Catalogs
    /\ similarity_scores \in ScoreVectors(Len(df))
    /\ top_n \in 0..(MaxRows + 1)
    /\ rpc = "start"
    /\ recommendations = <<>>
    /\ selected_category = AllCategories
    /\ sort_option = HighToLow
    /\ displayed = <<>>

\* recommend_jobs(...) called by the request
CallRecommendJobs ==
    /\ rpc = "start"
    /\ recommendations' = RecommendJobs(variant, df, similarity_scores, top_n)
    /\ rpc' = "recommended"
    /\ UNCHANGED <<variant, df, similarity_scores, top_n, selected_category,
                   sort_option, displayed>>
    /\ UNCHANGED <<tvars, lvars, mvars, qvars, svars, cvars, pvars>>

\* app.py: the two selectboxes are read, the list is filtered, sorted and the
\* cards rendered.  A later change of a selectbox re-runs the script from the
\* top with the same upload: the same call of recommend_jobs and this step
\* again, with the new selection.
AppFilterSortDisplay ==
    /\ variant = "model_utils"
    /\ rpc = "recommended"
    /\ \E sel \in FilterChoices(recommendations), opt \in SortOptions :
          /\ selected_category' = sel
          /\ sort_option' = opt
          /\ displayed' = DisplayedCards(recommendations, sel, opt)
    /\ rpc' = "displayed"
    /\ UNCHANGED <<variant, df, similarity_scores, top_n, recommendations>>
    /\ UNCHANGED <<tvars, lvars, mvars, qvars, svars, cvars, pvars>>

\* resume_job_matcher/app.py: the cards are the recommendations as returned
RjmDisplay ==
    /\ variant = "job_matcher"
    /\ rpc = "recommended"
    /\ displayed' = recommendations
    /\ rpc' = "displayed"
    /\ UNCHANGED <<variant, df, similarity_scores, top_n, recommendations,
                   selected_category, sort_option>>
    /\ UNCHANGED <<tvars, lvars, mvars, qvars, svars, cvars, pvars>>

RecNext == CallRecommendJobs \/ AppFilterSortDisplay \/ RjmDisplay


(***************************************************************************)
(* Properties of recommend_jobs and of the display step.                   *)
(***************************************************************************)
Returned == rpc # "start"

\* catalog positions the result was built from
ReturnedIdx == {recommendations[i].idx : i \in 1..Len(recommendations)}

\* C1: for a catalog of N rows and top_n >= 0, recommend_jobs (either variant)
\* returns exactly min(top_n, N) recommendations.
C1_LengthIsMin ==
    Returned => Len(recommendations) = Min(top_n, Len(df))

\* the cut-off acts: a non-empty result shorter than the catalog
C1_Witness ==
    /\ Returned
    /\ 0 < top_n
    /\ top_n < Len(df)
    /\ Len(recommendations) = top_n

\* C2: every recommendation is built from a row of the loaded catalog, and no
\* catalog row occurs twice in one result.
C2_RowsFromCatalogOnce ==
    Returned =>
        /\ \A i \in 1..Len(recommendations) :
              LET rec == recommendations[i]
              IN  /\ rec.idx \in 1..Len(df)
                  /\ rec.category = df[rec.idx].category
                  /\ rec.skills = df[rec.idx].job_skill_set
                  /\ variant = "model_utils" => rec.job_id = df[rec.idx].job_id
        /\ \A i, j \in 1..Len(recommendations) :
              i # j => recommendations[i].idx # recommendations[j].idx

\* a result of several rows, the whole catalog returned
C2_Witness ==
    /\ Returned
    /\ Len(recommendations) >= 2
    /\ ReturnedIdx = 1..Len(df)

\* C3: the result is ordered by score non-increasing, each entry carries the
\* score of its row, and no row left out scores strictly more than a
\* returned row.
C3_TopScoresDescending ==
    Returned =>
        /\ \A i \in 1..Len(recommendations) :
              recommendations[i].similarity_score
                  = similarity_scores[recommendations[i].idx]
        /\ \A i \in 1..(Len(recommendations) - 1) :
              recommendations[i].similarity_score
                  >= recommendations[i + 1].similarity_score
        /\ \A e \in (1..Len(df)) \ ReturnedIdx :
              \A i \in 1..Len(recommendations) :
                  similarity_scores[e] <= recommendations[i].similarity_score

\* the example of the specification: scores [0.9, 0.2, 0.6], top_n = 2 give the
\* rows scored 0.9 then 0.6 (quantised: 2, 0, 1)
C3_Witness ==
    /\ Returned
    /\ similarity_scores = <<2, 0, 1>>
    /\ top_n = 2
    /\ Len(recommendations) = 2
    /\ recommendations[1].idx = 1
    /\ recommendations[2].idx = 3

\* C4: equal scores keep catalog order: of two returned rows with the same
\* score the one earlier in the catalog comes first, and when a tie straddles
\* the cut-off the row earlier in the catalog is the one kept.
C4_TiesKeepCatalogOrder ==
    Returned =>
        /\ \A i, j \in 1..Len(recommendations) :
              (i < j /\ recommendations[i].similarity_score
                           = recommendations[j].similarity_score)
                  => recommendations[i].idx < recommendations[j].idx
        /\ \A e \in (1..Len(df)) \ ReturnedIdx :
              \A i \in 1..Len(recommendations) :
                  similarity_scores[e] = recommendations[i].similarity_score
                      => recommendations[i].idx < e

\* a tie inside the result and a tie across the cut-off
C4_Witness ==
    /\ Returned
    /\ \E i, j \in 1..Len(recommendations) :
          /\ i < j
          /\ recommendations[i].similarity_score
                = recommendations[j].similarity_score
          /\ \E e \in (1..Len(df)) \ ReturnedIdx :
                similarity_scores[e] = recommendations[j].similarity_score

AppDisplayed == variant = "model_utils" /\ rpc = "displayed"

\* C5: in app.py the cards follow the selected sort option: scores
\* non-increasing for "High to Low", non-decreasing for "Low to High",
\* whatever the category filter.
C5_DisplayFollowsSortOption ==
    AppDisplayed =>
        \A i \in 1..(Len(displayed) - 1) :
            IF sort_option = HighToLow
            THEN displayed[i].similarity_score >= displayed[i + 1].similarity_score
            ELSE displayed[i].similarity_score <= displayed[i + 1].similarity_score

\* "Low to High" under a category filter, with cards of different scores
C5_Witness ==
    /\ AppDisplayed
    /\ sort_option = LowToHigh
    /\ selected_category # AllCategories
    /\ Len(displayed) >= 2
    /\ displayed[1].similarity_score < displayed[Len(displayed)].similarity_score

\* C6: with a category selected every card has that category; with
\* "All Categories" every recommendation is still among the cards.
C6_CategoryFilter ==
    AppDisplayed =>
        /\ selected_category # AllCategories =>
              \A i \in 1..Len(displayed) : displayed[i].category = selected_category
        /\ selected_category = AllCategories =>
              /\ Len(displayed) = Len(recommendations)
              /\ \A i \in 1..Len(recommendations) :
                    \E j \in 1..Len(displayed) : displayed[j] = recommendations[i]

\* a category is selected and the filter has removed a recommendation
C6_Witness ==
    /\ AppDisplayed
    /\ selected_category # AllCategories
    /\ displayed # <<>>
    /\ Len(displayed) < Len(recommendations)

\* the rows of the global top_n that have category c
TopRowsOf(c) == {i \in ReturnedIdx : df[i].category = c}

\* C21 as stated: in app.py the filter acts on the list already cut to
\* top_n: the selectable values are "All Categories" and the categories of
\* the top_n rows, every selectable category gives a non-empty list of cards,
\* and the cards of a selected category are exactly the top_n rows of that
\* category, at most 10 and none from outside the top_n.
C21_FilterAfterTruncation ==
    (variant = "model_utils" /\ Returned) =>
        /\ FilterChoices(recommendations) =
              {AllCategories} \cup {df[i].category : i \in ReturnedIdx}
        /\ \A c \in FilterChoices(recommendations) \ {AllCategories} :
              \A opt \in SortOptions :
                  DisplayedCards(recommendations, c, opt) # <<>>
        /\ rpc = "displayed" =>
              /\ selected_category \in FilterChoices(recommendations)
              /\ Len(displayed) <= DisplayLimit
              /\ \A k \in 1..Len(displayed) : displayed[k].idx \in ReturnedIdx
              /\ selected_category # AllCategories =>
                    /\ displayed # <<>>
                    /\ {displayed[k].idx : k \in 1..Len(displayed)} =
                          TopRowsOf(selected_category)
                    /\ Len(displayed) = Cardinality(TopRowsOf(selected_category))

\* C21 amended: the selectable values are "All Categories" and the category
\* values of the top_n rows; a selected category label gives a non-empty list
\* of cards, exactly the top_n rows of that category; the nan that is offered
\* when a top_n row has an empty category cell gives no card at all; the
\* cards are at most 10 and none is from outside the top_n.
C21_FilterOfLabels ==
    (variant = "model_utils" /\ Returned) =>
        /\ FilterChoices(recommendations) =
              {AllCategories} \cup {df[i].category : i \in ReturnedIdx}
        /\ \A c \in FilterChoices(recommendations) \ {AllCategories} :
              \A opt \in SortOptions :
                  (DisplayedCards(recommendations, c, opt) = <<>>) <=> (c = NaN)
        /\ rpc = "displayed" =>
              /\ selected_category \in FilterChoices(recommendations)
              /\ Len(displayed) <= DisplayLimit
              /\ \A k \in 1..Len(displayed) : displayed[k].idx \in ReturnedIdx
              /\ selected_category = NaN => displayed = <<>>
              /\ selected_category \notin {AllCategories, NaN} =>
                    /\ displayed # <<>>
                    /\ {displayed[k].idx : k \in 1..Len(displayed)} =
                          TopRowsOf(selected_category)
                    /\ Len(displayed) = Cardinality(TopRowsOf(selected_category))

\* a category label is selected, a row of that category lies outside the
\* top_n and is not shown, and a top_n row with an empty category cell has
\* put nan among the choices
C21_Witness ==
    /\ AppDisplayed
    /\ selected_category \notin {AllCategories, NaN}
    /\ displayed # <<>>
    /\ \E e \in (1..Len(df)) \ ReturnedIdx : df[e].category = selected_category
    /\ NaN \in FilterChoices(recommendations)

\* the keys of the dictionaries of either implementation, with the position
\* the model records next to them
KeysOf(v) ==
    IF v = "model_utils"
    THEN {"idx", "job_id", "job_title", "category", "job_description",
          "skills", "similarity_score"}
    ELSE {"idx", "job_title", "category", "skills", "similarity_score"}

\* category, skills and score of a recommendation are those of its row
RowValues(rec) ==
    /\ rec.idx \in 1..Len(df)
    /\ rec.category = df[rec.idx].category
    /\ rec.skills = df[rec.idx].job_skill_set
    /\ rec.similarity_score = similarity_scores[rec.idx]

\* C17 as stated: each recommendation carries the row's title, category,
\* skills, description and its match score, the first four equal to the
\* catalog values.
C17_CarriesRowFields ==
    Returned =>
        \A i \in 1..Len(recommendations) :
            LET rec == recommendations[i]
            IN  /\ RowValues(rec)
                /\ rec.job_title = df[rec.idx].job_title
                /\ "job_description" \in DOMAIN rec
                /\ rec.job_description = df[rec.idx].job_description

\* C17 amended: in model_utils each recommendation carries the row's job id,
\* title, category, description and skills, equal to the catalog values, and
\* its match score; in job_matcher it carries category, skills and score, no
\* description, and as title the row's title, followed by " [job_id]" when the
\* job id is a non-blank string that does not start with '['.
C17_FieldsByVariant ==
    Returned =>
        \A i \in 1..Len(recommendations) :
            LET rec == recommendations[i]
            IN  /\ DOMAIN rec = KeysOf(variant)
                /\ RowValues(rec)
                /\ variant = "model_utils" =>
                      /\ rec.job_id = df[rec.idx].job_id
                      /\ rec.job_title = df[rec.idx].job_title
                      /\ rec.job_description = df[rec.idx].job_description
                /\ variant = "job_matcher" =>
                      rec.job_title =
                          IF df[rec.idx].job_id[1] = "str"
                          THEN <<df[rec.idx].job_title, " [",
                                 df[rec.idx].job_id, "]">>
                          ELSE df[rec.idx].job_title

\* job_matcher has returned a row whose job id went into the title and one
\* whose job id did not
C17_Witness ==
    /\ Returned
    /\ variant = "job_matcher"
    /\ \E i \in 1..Len(recommendations) :
          df[recommendations[i].idx].job_id[1] = "str"
    /\ \E i \in 1..Len(recommendations) :
          df[recommendations[i].idx].job_id[1] = "nan"

(***************************************************************************)
(* Text normalizer: fix_spacing and preprocess_resume.  The two copies     *)
(* (utils/preprocessing.py, resume_job_matcher/utils/resume_processor.py)  *)
(* hold the same statements.  A text is a sequence of characters, and a    *)
(* character is its Unicode code point, as in a Python str: 97 is "a",     *)
(* 65 is "A", 48 is "0", 32 is the space.  The tables of the Unicode       *)
(* character database are those of Unicode 14 (Python 3.11).               *)
(***************************************************************************)
\* the character classes of the regular expressions: a-z, A-Z
LowerAZ == 97..122
UpperAZ == 65..90
\* 0-9 of the character class [^a-z0-9\s]
Digits09 == 48..57
\* \d of a str pattern matches every Unicode decimal digit (category Nd):
\* the runs <<first, last>> of them
DecimalDigits ==
    UNION {r[1]..r[2] : r \in {
     <<48, 57>>, <<1632, 1641>>, <<1776, 1785>>, <<1984, 1993>>,
     <<2406, 2415>>, <<2534, 2543>>, <<2662, 2671>>, <<2790, 2799>>,
     <<2918, 2927>>, <<3046, 3055>>, <<3174, 3183>>, <<3302, 3311>>,
     <<3430, 3439>>, <<3558, 3567>>, <<3664, 3673>>, <<3792, 3801>>,
     <<3872, 3881>>, <<4160, 4169>>, <<4240, 4249>>, <<6112, 6121>>,
     <<6160, 6169>>, <<6470, 6479>>, <<6608, 6617>>, <<6784, 6793>>,
     <<6800, 6809>>, <<6992, 7001>>, <<7088, 7097>>, <<7232, 7241>>,
     <<7248, 7257>>, <<42528, 42537>>, <<43216, 43225>>, <<43264, 43273>>,
     <<43472, 43481>>, <<43504, 43513>>, <<43600, 43609>>,
     <<44016, 44025>>, <<65296, 65305>>, <<66720, 66729>>,
     <<68912, 68921>>, <<69734, 69743>>, <<69872, 69881>>,
     <<69942, 69951>>, <<70096, 70105>>, <<70384, 70393>>,
     <<70736, 70745>>, <<70864, 70873>>, <<71248, 71257>>,
     <<71360, 71369>>, <<71472, 71481>>, <<71904, 71913>>,
     <<72016, 72025>>, <<72784, 72793>>, <<73040, 73049>>,
     <<73120, 73129>>, <<92768, 92777>>, <<92864, 92873>>,
     <<93008, 93017>>, <<120782, 120831>>, <<123200, 123209>>,
     <<123632, 123641>>, <<125264, 125273>>, <<130032, 130041>>
    }}
\* \s of a str pattern, and the characters str.strip() removes: the Unicode
\* whitespace
Whitespace ==
    {9, 10, 11, 12, 13, 28, 29, 30, 31, 32, 133, 160, 5760, 8192, 8193, 8194,
     8195, 8196, 8197, 8198, 8199, 8200, 8201, 8202, 8232, 8233, 8239, 8287,
     12288}

IsLower(c) == c \in LowerAZ
IsUpper(c) == c \in UpperAZ
IsAlpha(c) == IsLower(c) \/ IsUpper(c)
IsDigit(c) == c \in DecimalDigits
IsSpace(c) == c \in Whitespace

\* re.sub of a zero-width pattern by ' ': a space goes in front of every
\* character whose flag is set
RECURSIVE InsertWhere(_, _)
InsertWhere(text, flags) ==
    IF text = <<>> THEN <<>>
    ELSE (IF Head(flags) THEN <<32, Head(text)>> ELSE <<Head(text)>>)
             \o InsertWhere(Tail(text), Tail(flags))

\* re.sub(r'(?<=[a-z])(?=[A-Z])', ' ', text)
SubCamel(text) ==
    InsertWhere(text, [i \in 1..Len(text) |->
                          i > 1 /\ IsLower(text[i - 1]) /\ IsUpper(text[i])])

\* re.sub(r'(?<=[a-zA-Z])(?=\d)', ' ', text)
SubLetterDigit(text) ==
    InsertWhere(text, [i \in 1..Len(text) |->
                          i > 1 /\ IsAlpha(text[i - 1]) /\ IsDigit(text[i])])

\* re.sub(r'(?<=\d)(?=[a-zA-Z])', ' ', text)
\* faulty variant: the substitution left out
SubDigitLetter_Missing(text) == text

SubDigitLetter(text) ==
    InsertWhere(text, [i \in 1..Len(text) |->
                          i > 1 /\ IsDigit(text[i - 1]) /\ IsAlpha(text[i])])

\* re.sub(r'([a-z])([A-Z])', r'\1 \2', text): the match consumes both
\* characters, and the scan goes on behind it
RECURSIVE SubLowerUpper(_)
SubLowerUpper(text) ==
    IF Len(text) < 2 THEN text
    ELSE IF IsLower(text[1]) /\ IsUpper(text[2])
         THEN <<text[1], 32, text[2]>> \o SubLowerUpper(Tail(Tail(text)))
         ELSE <<text[1]>> \o SubLowerUpper(Tail(text))

FixSpacing(text) == SubLowerUpper(SubDigitLetter(SubLetterDigit(SubCamel(text))))

\* The simple lower-case mapping of the characters outside ASCII: a row
\* <<first, last, step, shift>> says that the characters first, first + step,
\* ..., last have the lower case that lies shift code points further on.
LowerShifts ==
    {
     <<192, 214, 1, 32>>, <<216, 222, 1, 32>>, <<256, 302, 2, 1>>,
     <<306, 310, 2, 1>>, <<313, 327, 2, 1>>, <<330, 374, 2, 1>>,
     <<376, 376, 1, -121>>, <<377, 381, 2, 1>>, <<385, 385, 1, 210>>,
     <<386, 388, 2, 1>>, <<390, 390, 1, 206>>, <<391, 391, 1, 1>>,
     <<393, 394, 1, 205>>, <<395, 395, 1, 1>>, <<398, 398, 1, 79>>,
     <<399, 399, 1, 202>>, <<400, 400, 1, 203>>, <<401, 401, 1, 1>>,
     <<403, 403, 1, 205>>, <<404, 404, 1, 207>>, <<406, 406, 1, 211>>,
     <<407, 407, 1, 209>>, <<408, 408, 1, 1>>, <<412, 412, 1, 211>>,
     <<413, 413, 1, 213>>, <<415, 415, 1, 214>>, <<416, 420, 2, 1>>,
     <<422, 422, 1, 218>>, <<423, 423, 1, 1>>, <<425, 425, 1, 218>>,
     <<428, 428, 1, 1>>, <<430, 430, 1, 218>>, <<431, 431, 1, 1>>,
     <<433, 434, 1, 217>>, <<435, 437, 2, 1>>, <<439, 439, 1, 219>>,
     <<440, 440, 1, 1>>, <<444, 444, 1, 1>>, <<452, 452, 1, 2>>,
     <<453, 453, 1, 1>>, <<455, 455, 1, 2>>, <<456, 456, 1, 1>>,
     <<458, 458, 1, 2>>, <<459, 475, 2, 1>>, <<478, 494, 2, 1>>,
     <<497, 497, 1, 2>>, <<498, 500, 2, 1>>, <<502, 502, 1, -97>>,
     <<503, 503, 1, -56>>, <<504, 542, 2, 1>>, <<544, 544, 1, -130>>,
     <<546, 562, 2, 1>>, <<570, 570, 1, 10795>>, <<571, 571, 1, 1>>,
     <<573, 573, 1, -163>>, <<574, 574, 1, 10792>>, <<577, 577, 1, 1>>,
     <<579, 579, 1, -195>>, <<580, 580, 1, 69>>, <<581, 581, 1, 71>>,
     <<582, 590, 2, 1>>, <<880, 882, 2, 1>>, <<886, 886, 1, 1>>,
     <<895, 895, 1, 116>>, <<902, 902, 1, 38>>, <<904, 906, 1, 37>>,
     <<908, 908, 1, 64>>, <<910, 911, 1, 63>>, <<913, 929, 1, 32>>,
     <<931, 939, 1, 32>>, <<975, 975, 1, 8>>, <<984, 1006, 2, 1>>,
     <<1012, 1012, 1, -60>>, <<1015, 1015, 1, 1>>, <<1017, 1017, 1, -7>>,
     <<1018, 1018, 1, 1>>, <<1021, 1023, 1, -130>>, <<1024, 1039, 1, 80>>,
     <<1040, 1071, 1, 32>>, <<1120, 1152, 2, 1>>, <<1162, 1214, 2, 1>>,
     <<1216, 1216, 1, 15>>, <<1217, 1229, 2, 1>>, <<1232, 1326, 2, 1>>,
     <<1329, 1366, 1, 48>>, <<4256, 4293, 1, 7264>>,
     <<4295, 4295, 1, 7264>>, <<4301, 4301, 1, 7264>>,
     <<5024, 5103, 1, 38864>>, <<5104, 5109, 1, 8>>,
     <<7312, 7354, 1, -3008>>, <<7357, 7359, 1, -3008>>,
     <<7680, 7828, 2, 1>>, <<7838, 7838, 1, -7615>>, <<7840, 7934, 2, 1>>,
     <<7944, 7951, 1, -8>>, <<7960, 7965, 1, -8>>, <<7976, 7983, 1, -8>>,
     <<7992, 7999, 1, -8>>, <<8008, 8013, 1, -8>>, <<8025, 8031, 2, -8>>,
     <<8040, 8047, 1, -8>>, <<8072, 8079, 1, -8>>, <<8088, 8095, 1, -8>>,
     <<8104, 8111, 1, -8>>, <<8120, 8121, 1, -8>>, <<8122, 8123, 1, -74>>,
     <<8124, 8124, 1, -9>>, <<8136, 8139, 1, -86>>, <<8140, 8140, 1, -9>>,
     <<8152, 8153, 1, -8>>, <<8154, 8155, 1, -100>>, <<8168, 8169, 1, -8>>,
     <<8170, 8171, 1, -112>>, <<8172, 8172, 1, -7>>,
     <<8184, 8185, 1, -128>>, <<8186, 8187, 1, -126>>,
     <<8188, 8188, 1, -9>>, <<8486, 8486, 1, -7517>>,
     <<8490, 8490, 1, -8383>>, <<8491, 8491, 1, -8262>>,
     <<8498, 8498, 1, 28>>, <<8544, 8559, 1, 16>>, <<8579, 8579, 1, 1>>,
     <<9398, 9423, 1, 26>>, <<11264, 11311, 1, 48>>,
     <<11360, 11360, 1, 1>>, <<11362, 11362, 1, -10743>>,
     <<11363, 11363, 1, -3814>>, <<11364, 11364, 1, -10727>>,
     <<11367, 11371, 2, 1>>, <<11373, 11373, 1, -10780>>,
     <<11374, 11374, 1, -10749>>, <<11375, 11375, 1, -10783>>,
     <<11376, 11376, 1, -10782>>, <<11378, 11378, 1, 1>>,
     <<11381, 11381, 1, 1>>, <<11390, 11391, 1, -10815>>,
     <<11392, 11490, 2, 1>>, <<11499, 11501, 2, 1>>,
     <<11506, 11506, 1, 1>>, <<42560, 42604, 2, 1>>,
     <<42624, 42650, 2, 1>>, <<42786, 42798, 2, 1>>,
     <<42802, 42862, 2, 1>>, <<42873, 42875, 2, 1>>,
     <<42877, 42877, 1, -35332>>, <<42878, 42886, 2, 1>>,
     <<42891, 42891, 1, 1>>, <<42893, 42893, 1, -42280>>,
     <<42896, 42898, 2, 1>>, <<42902, 42920, 2, 1>>,
     <<42922, 42922, 1, -42308>>, <<42923, 42923, 1, -42319>>,
     <<42924, 42924, 1, -42315>>, <<42925, 42925, 1, -42305>>,
     <<42926, 42926, 1, -42308>>, <<42928, 42928, 1, -42258>>,
     <<42929, 42929, 1, -42282>>, <<42930, 42930, 1, -42261>>,
     <<42931, 42931, 1, 928>>, <<42932, 42946, 2, 1>>,
     <<42948, 42948, 1, -48>>, <<42949, 42949, 1, -42307>>,
     <<42950, 42950, 1, -35384>>, <<42951, 42953, 2, 1>>,
     <<42960, 42960, 1, 1>>, <<42966, 42968, 2, 1>>,
     <<42997, 42997, 1, 1>>, <<65313, 65338, 1, 32>>,
     <<66560, 66599, 1, 40>>, <<66736, 66771, 1, 40>>,
     <<66928, 66964, 2, 39>>, <<66929, 66937, 2, 39>>,
     <<66941, 66953, 2, 39>>, <<66957, 66961, 2, 39>>,
     <<66965, 66965, 1, 39>>, <<68736, 68786, 1, 64>>,
     <<71840, 71871, 1, 32>>, <<93760, 93791, 1, 32>>,
     <<125184, 125217, 1, 34>>
    }

\* str.lower() of one character, as a text: A-Z by 32; LATIN CAPITAL LETTER I
\* WITH DOT ABOVE (304) gives two characters, i and COMBINING DOT ABOVE;
\* outside ASCII the rows of LowerShifts; every other character is kept
ToLowerChar(c) ==
    CASE c \in UpperAZ -> <<c + 32>>
      [] c = 304 -> <<105, 775>>
      [] c > 127 /\ c # 304 ->
            LET rows == {r \in LowerShifts :
                            r[1] <= c /\ c <= r[2] /\ (c - r[1]) % r[3] = 0}
            IN  IF rows = {} THEN <<c>>
                ELSE <<c + (CHOOSE r \in rows : TRUE)[4]>>
      [] OTHER -> <<c>>

\* the characters with the property Cased that are not Case_Ignorable, and
\* the Case_Ignorable characters (apostrophe, full stop, combining marks,
\* ...), as runs <<first, last>>
Cased ==
    UNION {r[1]..r[2] : r \in {
     <<65, 90>>, <<97, 122>>, <<170, 170>>, <<181, 181>>, <<186, 186>>,
     <<192, 214>>, <<216, 246>>, <<248, 442>>, <<444, 447>>, <<452, 659>>,
     <<661, 687>>, <<880, 883>>, <<886, 887>>, <<891, 893>>, <<895, 895>>,
     <<902, 902>>, <<904, 906>>, <<908, 908>>, <<910, 929>>, <<931, 1013>>,
     <<1015, 1153>>, <<1162, 1327>>, <<1329, 1366>>, <<1376, 1416>>,
     <<4256, 4293>>, <<4295, 4295>>, <<4301, 4301>>, <<4304, 4346>>,
     <<4349, 4351>>, <<5024, 5109>>, <<5112, 5117>>, <<7296, 7304>>,
     <<7312, 7354>>, <<7357, 7359>>, <<7424, 7467>>, <<7531, 7543>>,
     <<7545, 7578>>, <<7680, 7957>>, <<7960, 7965>>, <<7968, 8005>>,
     <<8008, 8013>>, <<8016, 8023>>, <<8025, 8025>>, <<8027, 8027>>,
     <<8029, 8029>>, <<8031, 8061>>, <<8064, 8116>>, <<8118, 8124>>,
     <<8126, 8126>>, <<8130, 8132>>, <<8134, 8140>>, <<8144, 8147>>,
     <<8150, 8155>>, <<8160, 8172>>, <<8178, 8180>>, <<8182, 8188>>,
     <<8450, 8450>>, <<8455, 8455>>, <<8458, 8467>>, <<8469, 8469>>,
     <<8473, 8477>>, <<8484, 8484>>, <<8486, 8486>>, <<8488, 8488>>,
     <<8490, 8493>>, <<8495, 8500>>, <<8505, 8505>>, <<8508, 8511>>,
     <<8517, 8521>>, <<8526, 8526>>, <<8544, 8575>>, <<8579, 8580>>,
     <<9398, 9449>>, <<11264, 11387>>, <<11390, 11492>>, <<11499, 11502>>,
     <<11506, 11507>>, <<11520, 11557>>, <<11559, 11559>>,
     <<11565, 11565>>, <<42560, 42605>>, <<42624, 42651>>,
     <<42786, 42863>>, <<42865, 42887>>, <<42891, 42894>>,
     <<42896, 42954>>, <<42960, 42961>>, <<42963, 42963>>,
     <<42965, 42969>>, <<42997, 42998>>, <<43002, 43002>>,
     <<43824, 43866>>, <<43872, 43880>>, <<43888, 43967>>,
     <<64256, 64262>>, <<64275, 64279>>, <<65313, 65338>>,
     <<65345, 65370>>, <<66560, 66639>>, <<66736, 66771>>,
     <<66776, 66811>>, <<66928, 66938>>, <<66940, 66954>>,
     <<66956, 66962>>, <<66964, 66965>>, <<66967, 66977>>,
     <<66979, 66993>>, <<66995, 67001>>, <<67003, 67004>>,
     <<68736, 68786>>, <<68800, 68850>>, <<71840, 71903>>,
     <<93760, 93823>>, <<119808, 119892>>, <<119894, 119964>>,
     <<119966, 119967>>, <<119970, 119970>>, <<119973, 119974>>,
     <<119977, 119980>>, <<119982, 119993>>, <<119995, 119995>>,
     <<119997, 120003>>, <<120005, 120069>>, <<120071, 120074>>,
     <<120077, 120084>>, <<120086, 120092>>, <<120094, 120121>>,
     <<120123, 120126>>, <<120128, 120132>>, <<120134, 120134>>,
     <<120138, 120144>>, <<120146, 120485>>, <<120488, 120512>>,
     <<120514, 120538>>, <<120540, 120570>>, <<120572, 120596>>,
     <<120598, 120628>>, <<120630, 120654>>, <<120656, 120686>>,
     <<120688, 120712>>, <<120714, 120744>>, <<120746, 120770>>,
     <<120772, 120779>>, <<122624, 122633>>, <<122635, 122654>>,
     <<125184, 125251>>, <<127280, 127305>>, <<127312, 127337>>,
     <<127344, 127369>>
    }}
CaseIgnorable ==
    UNION {r[1]..r[2] : r \in {
     <<39, 39>>, <<46, 46>>, <<58, 58>>, <<94, 94>>, <<96, 96>>,
     <<168, 168>>, <<173, 173>>, <<175, 175>>, <<180, 180>>, <<183, 184>>,
     <<688, 879>>, <<884, 885>>, <<890, 890>>, <<900, 901>>, <<903, 903>>,
     <<1155, 1161>>, <<1369, 1369>>, <<1375, 1375>>, <<1425, 1469>>,
     <<1471, 1471>>, <<1473, 1474>>, <<1476, 1477>>, <<1479, 1479>>,
     <<1524, 1524>>, <<1536, 1541>>, <<1552, 1562>>, <<1564, 1564>>,
     <<1600, 1600>>, <<1611, 1631>>, <<1648, 1648>>, <<1750, 1757>>,
     <<1759, 1768>>, <<1770, 1773>>, <<1807, 1807>>, <<1809, 1809>>,
     <<1840, 1866>>, <<1958, 1968>>, <<2027, 2037>>, <<2042, 2042>>,
     <<2045, 2045>>, <<2070, 2093>>, <<2137, 2139>>, <<2184, 2184>>,
     <<2192, 2193>>, <<2200, 2207>>, <<2249, 2306>>, <<2362, 2362>>,
     <<2364, 2364>>, <<2369, 2376>>, <<2381, 2381>>, <<2385, 2391>>,
     <<2402, 2403>>, <<2417, 2417>>, <<2433, 2433>>, <<2492, 2492>>,
     <<2497, 2500>>, <<2509, 2509>>, <<2530, 2531>>, <<2558, 2558>>,
     <<2561, 2562>>, <<2620, 2620>>, <<2625, 2626>>, <<2631, 2632>>,
     <<2635, 2637>>, <<2641, 2641>>, <<2672, 2673>>, <<2677, 2677>>,
     <<2689, 2690>>, <<2748, 2748>>, <<2753, 2757>>, <<2759, 2760>>,
     <<2765, 2765>>, <<2786, 2787>>, <<2810, 2815>>, <<2817, 2817>>,
     <<2876, 2876>>, <<2879, 2879>>, <<2881, 2884>>, <<2893, 2893>>,
     <<2901, 2902>>, <<2914, 2915>>, <<2946, 2946>>, <<3008, 3008>>,
     <<3021, 3021>>, <<3072, 3072>>, <<3076, 3076>>, <<3132, 3132>>,
     <<3134, 3136>>, <<3142, 3144>>, <<3146, 3149>>, <<3157, 3158>>,
     <<3170, 3171>>, <<3201, 3201>>, <<3260, 3260>>, <<3263, 3263>>,
     <<3270, 3270>>, <<3276, 3277>>, <<3298, 3299>>, <<3328, 3329>>,
     <<3387, 3388>>, <<3393, 3396>>, <<3405, 3405>>, <<3426, 3427>>,
     <<3457, 3457>>, <<3530, 3530>>, <<3538, 3540>>, <<3542, 3542>>,
     <<3633, 3633>>, <<3636, 3642>>, <<3654, 3662>>, <<3761, 3761>>,
     <<3764, 3772>>, <<3782, 3782>>, <<3784, 3789>>, <<3864, 3865>>,
     <<3893, 3893>>, <<3895, 3895>>, <<3897, 3897>>, <<3953, 3966>>,
     <<3968, 3972>>, <<3974, 3975>>, <<3981, 3991>>, <<3993, 4028>>,
     <<4038, 4038>>, <<4141, 4144>>, <<4146, 4151>>, <<4153, 4154>>,
     <<4157, 4158>>, <<4184, 4185>>, <<4190, 4192>>, <<4209, 4212>>,
     <<4226, 4226>>, <<4229, 4230>>, <<4237, 4237>>, <<4253, 4253>>,
     <<4348, 4348>>, <<4957, 4959>>, <<5906, 5908>>, <<5938, 5939>>,
     <<5970, 5971>>, <<6002, 6003>>, <<6068, 6069>>, <<6071, 6077>>,
     <<6086, 6086>>, <<6089, 6099>>, <<6103, 6103>>, <<6109, 6109>>,
     <<6155, 6159>>, <<6211, 6211>>, <<6277, 6278>>, <<6313, 6313>>,
     <<6432, 6434>>, <<6439, 6440>>, <<6450, 6450>>, <<6457, 6459>>,
     <<6679, 6680>>, <<6683, 6683>>, <<6742, 6742>>, <<6744, 6750>>,
     <<6752, 6752>>, <<6754, 6754>>, <<6757, 6764>>, <<6771, 6780>>,
     <<6783, 6783>>, <<6823, 6823>>, <<6832, 6862>>, <<6912, 6915>>,
     <<6964, 6964>>, <<6966, 6970>>, <<6972, 6972>>, <<6978, 6978>>,
     <<7019, 7027>>, <<7040, 7041>>, <<7074, 7077>>, <<7080, 7081>>,
     <<7083, 7085>>, <<7142, 7142>>, <<7144, 7145>>, <<7149, 7149>>,
     <<7151, 7153>>, <<7212, 7219>>, <<7222, 7223>>, <<7288, 7293>>,
     <<7376, 7378>>, <<7380, 7392>>, <<7394, 7400>>, <<7405, 7405>>,
     <<7412, 7412>>, <<7416, 7417>>, <<7468, 7530>>, <<7544, 7544>>,
     <<7579, 7679>>, <<8125, 8125>>, <<8127, 8129>>, <<8141, 8143>>,
     <<8157, 8159>>, <<8173, 8175>>, <<8189, 8190>>, <<8203, 8207>>,
     <<8216, 8217>>, <<8228, 8228>>, <<8231, 8231>>, <<8234, 8238>>,
     <<8288, 8292>>, <<8294, 8303>>, <<8305, 8305>>, <<8319, 8319>>,
     <<8336, 8348>>, <<8400, 8432>>, <<11388, 11389>>, <<11503, 11505>>,
     <<11631, 11631>>, <<11647, 11647>>, <<11744, 11775>>,
     <<11823, 11823>>, <<12293, 12293>>, <<12330, 12333>>,
     <<12337, 12341>>, <<12347, 12347>>, <<12441, 12446>>,
     <<12540, 12542>>, <<40981, 40981>>, <<42232, 42237>>,
     <<42508, 42508>>, <<42607, 42610>>, <<42612, 42621>>,
     <<42623, 42623>>, <<42652, 42655>>, <<42736, 42737>>,
     <<42752, 42785>>, <<42864, 42864>>, <<42888, 42890>>,
     <<42994, 42996>>, <<43000, 43001>>, <<43010, 43010>>,
     <<43014, 43014>>, <<43019, 43019>>, <<43045, 43046>>,
     <<43052, 43052>>, <<43204, 43205>>, <<43232, 43249>>,
     <<43263, 43263>>, <<43302, 43309>>, <<43335, 43345>>,
     <<43392, 43394>>, <<43443, 43443>>, <<43446, 43449>>,
     <<43452, 43453>>, <<43471, 43471>>, <<43493, 43494>>,
     <<43561, 43566>>, <<43569, 43570>>, <<43573, 43574>>,
     <<43587, 43587>>, <<43596, 43596>>, <<43632, 43632>>,
     <<43644, 43644>>, <<43696, 43696>>, <<43698, 43700>>,
     <<43703, 43704>>, <<43710, 43711>>, <<43713, 43713>>,
     <<43741, 43741>>, <<43756, 43757>>, <<43763, 43764>>,
     <<43766, 43766>>, <<43867, 43871>>, <<43881, 43883>>,
     <<44005, 44005>>, <<44008, 44008>>, <<44013, 44013>>,
     <<64286, 64286>>, <<64434, 64450>>, <<65024, 65039>>,
     <<65043, 65043>>, <<65056, 65071>>, <<65106, 65106>>,
     <<65109, 65109>>, <<65279, 65279>>, <<65287, 65287>>,
     <<65294, 65294>>, <<65306, 65306>>, <<65342, 65342>>,
     <<65344, 65344>>, <<65392, 65392>>, <<65438, 65439>>,
     <<65507, 65507>>, <<65529, 65531>>, <<66045, 66045>>,
     <<66272, 66272>>, <<66422, 66426>>, <<67456, 67461>>,
     <<67463, 67504>>, <<67506, 67514>>, <<68097, 68099>>,
     <<68101, 68102>>, <<68108, 68111>>, <<68152, 68154>>,
     <<68159, 68159>>, <<68325, 68326>>, <<68900, 68903>>,
     <<69291, 69292>>, <<69446, 69456>>, <<69506, 69509>>,
     <<69633, 69633>>, <<69688, 69702>>, <<69744, 69744>>,
     <<69747, 69748>>, <<69759, 69761>>, <<69811, 69814>>,
     <<69817, 69818>>, <<69821, 69821>>, <<69826, 69826>>,
     <<69837, 69837>>, <<69888, 69890>>, <<69927, 69931>>,
     <<69933, 69940>>, <<70003, 70003>>, <<70016, 70017>>,
     <<70070, 70078>>, <<70089, 70092>>, <<70095, 70095>>,
     <<70191, 70193>>, <<70196, 70196>>, <<70198, 70199>>,
     <<70206, 70206>>, <<70367, 70367>>, <<70371, 70378>>,
     <<70400, 70401>>, <<70459, 70460>>, <<70464, 70464>>,
     <<70502, 70508>>, <<70512, 70516>>, <<70712, 70719>>,
     <<70722, 70724>>, <<70726, 70726>>, <<70750, 70750>>,
     <<70835, 70840>>, <<70842, 70842>>, <<70847, 70848>>,
     <<70850, 70851>>, <<71090, 71093>>, <<71100, 71101>>,
     <<71103, 71104>>, <<71132, 71133>>, <<71219, 71226>>,
     <<71229, 71229>>, <<71231, 71232>>, <<71339, 71339>>,
     <<71341, 71341>>, <<71344, 71349>>, <<71351, 71351>>,
     <<71453, 71455>>, <<71458, 71461>>, <<71463, 71467>>,
     <<71727, 71735>>, <<71737, 71738>>, <<71995, 71996>>,
     <<71998, 71998>>, <<72003, 72003>>, <<72148, 72151>>,
     <<72154, 72155>>, <<72160, 72160>>, <<72193, 72202>>,
     <<72243, 72248>>, <<72251, 72254>>, <<72263, 72263>>,
     <<72273, 72278>>, <<72281, 72283>>, <<72330, 72342>>,
     <<72344, 72345>>, <<72752, 72758>>, <<72760, 72765>>,
     <<72767, 72767>>, <<72850, 72871>>, <<72874, 72880>>,
     <<72882, 72883>>, <<72885, 72886>>, <<73009, 73014>>,
     <<73018, 73018>>, <<73020, 73021>>, <<73023, 73029>>,
     <<73031, 73031>>, <<73104, 73105>>, <<73109, 73109>>,
     <<73111, 73111>>, <<73459, 73460>>, <<78896, 78904>>,
     <<92912, 92916>>, <<92976, 92982>>, <<92992, 92995>>,
     <<94031, 94031>>, <<94095, 94111>>, <<94176, 94177>>,
     <<94179, 94180>>, <<110576, 110579>>, <<110581, 110587>>,
     <<110589, 110590>>, <<113821, 113822>>, <<113824, 113827>>,
     <<118528, 118573>>, <<118576, 118598>>, <<119143, 119145>>,
     <<119155, 119170>>, <<119173, 119179>>, <<119210, 119213>>,
     <<119362, 119364>>, <<121344, 121398>>, <<121403, 121452>>,
     <<121461, 121461>>, <<121476, 121476>>, <<121499, 121503>>,
     <<121505, 121519>>, <<122880, 122886>>, <<122888, 122904>>,
     <<122907, 122913>>, <<122915, 122916>>, <<122918, 122922>>,
     <<123184, 123197>>, <<123566, 123566>>, <<123628, 123631>>,
     <<125136, 125142>>, <<125252, 125259>>, <<127995, 127999>>,
     <<917505, 917505>>, <<917536, 917631>>, <<917760, 917999>>
    }}

\* GREEK CAPITAL LETTER SIGMA (931) is the one character whose lower case
\* depends on its neighbours: the final sigma (962) when, Case_Ignorable
\* characters skipped, a cased character stands before it and none behind it,
\* the small sigma (963) otherwise
FinalSigma(text, i) ==
    LET before == {j \in 1..(i - 1) : text[j] \notin CaseIgnorable}
        after == {j \in (i + 1)..Len(text) : text[j] \notin CaseIgnorable}
        last == CHOOSE j \in before : \A k \in before : k <= j
        next == CHOOSE j \in after : \A k \in after : j <= k
    IN  /\ before # {}
        /\ text[last] \in Cased
        /\ after # {} => text[next] \notin Cased

RECURSIVE LowerFrom(_, _)
LowerFrom(text, i) ==
    IF i > Len(text) THEN <<>>
    ELSE (IF text[i] = 931
          THEN <<IF FinalSigma(text, i) THEN 962 ELSE 963>>
          ELSE ToLowerChar(text[i]))
             \o LowerFrom(text, i + 1)

\* str.lower()
Lower(text) == LowerFrom(text, 1)

RECURSIVE KeepChars(_, _)
KeepChars(text, keep) ==
    IF text = <<>> THEN <<>>
    ELSE (IF Head(text) \in keep THEN <<Head(text)>> ELSE <<>>)
             \o KeepChars(Tail(text), keep)

\* re.sub(r'[^a-z0-9\s]', '', text)
\* faulty variant: nothing removed
RemoveSpecial_KeepAll(text) == text

RemoveSpecial(text) == KeepChars(text, LowerAZ \cup Digits09 \cup Whitespace)

\* re.sub(r'\s+', ' ', text): every run of whitespace becomes one space
RECURSIVE CollapseSpaces(_)
CollapseSpaces(text) ==
    IF text = <<>> THEN <<>>
    ELSE IF IsSpace(Head(text))
         THEN IF Len(text) >= 2 /\ IsSpace(text[2])
              THEN CollapseSpaces(Tail(text))
              ELSE <<32>> \o CollapseSpaces(Tail(text))
         ELSE <<Head(text)>> \o CollapseSpaces(Tail(text))

RECURSIVE LStrip(_)
LStrip(text) ==
    IF text # <<>> /\ IsSpace(Head(text)) THEN LStrip(Tail(text)) ELSE text

\* str.strip()
Strip(text) == Reverse(LStrip(Reverse(LStrip(text))))

\* a word written with the letters a-z, as a text
Word(w) ==
    LET letters == <<"a", "b", "c", "d", "e", "f", "g", "h", "i", "j", "k", "l",
                     "m", "n", "o", "p", "q", "r", "s", "t", "u", "v", "w", "x",
                     "y", "z">>
    IN  [i \in 1..Len(w) |->
            96 + (CHOOSE k \in 1..Len(letters) : letters[k] = w[i])]

\* the words between the spaces; cur is the word being read
RECURSIVE TokenizeFrom(_, _)
TokenizeFrom(text, cur) ==
    IF text = <<>> THEN (IF cur = <<>> THEN <<>> ELSE <<cur>>)
    ELSE IF IsSpace(Head(text))
         THEN (IF cur = <<>> THEN <<>> ELSE <<cur>>) \o TokenizeFrom(Tail(text), <<>>)
         ELSE TokenizeFrom(Tail(text), Append(cur, Head(text)))

\* The contractions the Treebank tokenizer splits that are spelled without an
\* apostrophe: "cannot" gives "can", "not".  "wanna" is split in front of
\* whitespace; the tokenizer puts a space at both ends of the text first, so
\* the last word is split as well.
Contractions ==
    {<<Word(<<"c", "a", "n">>), Word(<<"n", "o", "t">>)>>,
     <<Word(<<"g", "i", "m">>), Word(<<"m", "e">>)>>,
     <<Word(<<"g", "o", "n">>), Word(<<"n", "a">>)>>,
     <<Word(<<"g", "o", "t">>), Word(<<"t", "a">>)>>,
     <<Word(<<"l", "e", "m">>), Word(<<"m", "e">>)>>,
     <<Word(<<"w", "a", "n">>), Word(<<"n", "a">>)>>}

RECURSIVE SplitContractions(_)
SplitContractions(words) ==
    IF words = <<>> THEN <<>>
    ELSE LET word == Head(words)
             parts == {p \in Contractions : word = p[1] \o p[2]}
         IN  (IF parts = {} THEN <<word>> ELSE CHOOSE p \in parts : TRUE)
                 \o SplitContractions(Tail(words))

\* word_tokenize on a text of lower-case letters, digits and single spaces,
\* which has no punctuation left: one sentence, its words, the contractions
\* split
WordTokenize(text) == SplitContractions(TokenizeFrom(text, <<>>))

\* stopwords.words('english'): the entries without an apostrophe (a word of
\* the text has none: line 44 removed them)
StopWords ==
    {Word(w) : w \in {
     <<"i">>, <<"m", "e">>, <<"m", "y">>, <<"m", "y", "s", "e", "l", "f">>,
     <<"w", "e">>, <<"o", "u", "r">>, <<"o", "u", "r", "s">>,
     <<"o", "u", "r", "s", "e", "l", "v", "e", "s">>, <<"y", "o", "u">>,
     <<"y", "o", "u", "r">>, <<"y", "o", "u", "r", "s">>,
     <<"y", "o", "u", "r", "s", "e", "l", "f">>,
     <<"y", "o", "u", "r", "s", "e", "l", "v", "e", "s">>, <<"h", "e">>,
     <<"h", "i", "m">>, <<"h", "i", "s">>,
     <<"h", "i", "m", "s", "e", "l", "f">>, <<"s", "h", "e">>,
     <<"h", "e", "r">>, <<"h", "e", "r", "s">>,
     <<"h", "e", "r", "s", "e", "l", "f">>, <<"i", "t">>,
     <<"i", "t", "s">>, <<"i", "t", "s", "e", "l", "f">>,
     <<"t", "h", "e", "y">>, <<"t", "h", "e", "m">>,
     <<"t", "h", "e", "i", "r">>, <<"t", "h", "e", "i", "r", "s">>,
     <<"t", "h", "e", "m", "s", "e", "l", "v", "e", "s">>,
     <<"w", "h", "a", "t">>, <<"w", "h", "i", "c", "h">>,
     <<"w", "h", "o">>, <<"w", "h", "o", "m">>, <<"t", "h", "i", "s">>,
     <<"t", "h", "a", "t">>, <<"t", "h", "e", "s", "e">>,
     <<"t", "h", "o", "s", "e">>, <<"a", "m">>, <<"i", "s">>,
     <<"a", "r", "e">>, <<"w", "a", "s">>, <<"w", "e", "r", "e">>,
     <<"b", "e">>, <<"b", "e", "e", "n">>, <<"b", "e", "i", "n", "g">>,
     <<"h", "a", "v", "e">>, <<"h", "a", "s">>, <<"h", "a", "d">>,
     <<"h", "a", "v", "i", "n", "g">>, <<"d", "o">>,
     <<"d", "o", "e", "s">>, <<"d", "i", "d">>,
     <<"d", "o", "i", "n", "g">>, <<"a">>, <<"a", "n">>, <<"t", "h", "e">>,
     <<"a", "n", "d">>, <<"b", "u", "t">>, <<"i", "f">>, <<"o", "r">>,
     <<"b", "e", "c", "a", "u", "s", "e">>, <<"a", "s">>,
     <<"u", "n", "t", "i", "l">>, <<"w", "h", "i", "l", "e">>,
     <<"o", "f">>, <<"a", "t">>, <<"b", "y">>, <<"f", "o", "r">>,
     <<"w", "i", "t", "h">>, <<"a", "b", "o", "u", "t">>,
     <<"a", "g", "a", "i", "n", "s", "t">>,
     <<"b", "e", "t", "w", "e", "e", "n">>, <<"i", "n", "t", "o">>,
     <<"t", "h", "r", "o", "u", "g", "h">>,
     <<"d", "u", "r", "i", "n", "g">>, <<"b", "e", "f", "o", "r", "e">>,
     <<"a", "f", "t", "e", "r">>, <<"a", "b", "o", "v", "e">>,
     <<"b", "e", "l", "o", "w">>, <<"t", "o">>, <<"f", "r", "o", "m">>,
     <<"u", "p">>, <<"d", "o", "w", "n">>, <<"i", "n">>, <<"o", "u", "t">>,
     <<"o", "n">>, <<"o", "f", "f">>, <<"o", "v", "e", "r">>,
     <<"u", "n", "d", "e", "r">>, <<"a", "g", "a", "i", "n">>,
     <<"f", "u", "r", "t", "h", "e", "r">>, <<"t", "h", "e", "n">>,
     <<"o", "n", "c", "e">>, <<"h", "e", "r", "e">>,
     <<"t", "h", "e", "r", "e">>, <<"w", "h", "e", "n">>,
     <<"w", "h", "e", "r", "e">>, <<"w", "h", "y">>, <<"h", "o", "w">>,
     <<"a", "l", "l">>, <<"a", "n", "y">>, <<"b", "o", "t", "h">>,
     <<"e", "a", "c", "h">>, <<"f", "e", "w">>, <<"m", "o", "r", "e">>,
     <<"m", "o", "s", "t">>, <<"o", "t", "h", "e", "r">>,
     <<"s", "o", "m", "e">>, <<"s", "u", "c", "h">>, <<"n", "o">>,
     <<"n", "o", "r">>, <<"n", "o", "t">>, <<"o", "n", "l", "y">>,
     <<"o", "w", "n">>, <<"s", "a", "m", "e">>, <<"s", "o">>,
     <<"t", "h", "a", "n">>, <<"t", "o", "o">>, <<"v", "e", "r", "y">>,
     <<"s">>, <<"t">>, <<"c", "a", "n">>, <<"w", "i", "l", "l">>,
     <<"j", "u", "s", "t">>, <<"d", "o", "n">>,
     <<"s", "h", "o", "u", "l", "d">>, <<"n", "o", "w">>, <<"d">>,
     <<"l", "l">>, <<"m">>, <<"o">>, <<"r", "e">>, <<"v", "e">>, <<"y">>,
     <<"a", "i", "n">>, <<"a", "r", "e", "n">>,
     <<"c", "o", "u", "l", "d", "n">>, <<"d", "i", "d", "n">>,
     <<"d", "o", "e", "s", "n">>, <<"h", "a", "d", "n">>,
     <<"h", "a", "s", "n">>, <<"h", "a", "v", "e", "n">>,
     <<"i", "s", "n">>, <<"m", "a">>, <<"m", "i", "g", "h", "t", "n">>,
     <<"m", "u", "s", "t", "n">>, <<"n", "e", "e", "d", "n">>,
     <<"s", "h", "a", "n">>, <<"s", "h", "o", "u", "l", "d", "n">>,
     <<"w", "a", "s", "n">>, <<"w", "e", "r", "e", "n">>,
     <<"w", "o", "n">>, <<"w", "o", "u", "l", "d", "n">>
    }}

\* WordNet's data, as far as the words of the model's texts need it. The
\* lemmas of the noun index (index.noun, lower case) among the forms the
\* lemmatizer looks up: the letters, numerals, symbols and abbreviations
\* that the characters of Alphabet spell (a, b, i, k, 1; Ab, BA, Bi, Bk, KB,
\* II, ...; <<49>> is "1"), the parts of the contractions, and the lemmas of SampleTexts.
\* The entries of the noun exception list (noun.exc) among the words.
WordNetNouns ==
    {Word(<<"a">>), Word(<<"b">>), Word(<<"i">>), Word(<<"k">>),
     <<49>>, <<49, 49>>, Word(<<"a", "a">>),
     Word(<<"a", "b">>), Word(<<"a", "i">>), Word(<<"a", "k">>),
     Word(<<"b", "a">>), Word(<<"b", "b">>), Word(<<"b", "i">>),
     Word(<<"b", "k">>), Word(<<"i", "a">>), Word(<<"i", "i">>),
     Word(<<"k", "a">>), Word(<<"k", "b">>), Word(<<"k", "i">>),
     Word(<<"a", "a", "a">>), Word(<<"a", "b", "a">>),
     Word(<<"b", "a", "a">>), Word(<<"b", "i", "b">>),
     Word(<<"i", "a", "a">>), Word(<<"i", "b", "a">>),
     Word(<<"i", "i", "i">>), Word(<<"k", "i", "b">>),
     Word(<<"k", "k", "k">>), Word(<<"a", "b", "b", "a">>),
     Word(<<"a", "b", "i", "b">>), Word(<<"b", "a", "b", "a">>),
     Word(<<"k", "a", "k", "a">>), Word(<<"k", "a", "k", "i">>),
     Word(<<"c", "a", "n">>), Word(<<"n", "a">>), Word(<<"w", "a", "n">>),
     Word(<<"d", "o", "g">>), Word(<<"c", "h", "u", "r", "c", "h">>),
     Word(<<"a", "b", "a", "c", "u", "s">>)}
NounExceptions ==
    {<<Word(<<"a", "b", "a", "c", "i">>), <<Word(<<"a", "b", "a", "c", "u", "s">>)>>>>}

\* MORPHOLOGICAL_SUBSTITUTIONS of the nouns, in the order of the list: the
\* ending and what replaces it
NounSubstitutions ==
    <<<<Word(<<"s">>), <<>>>>,
      <<Word(<<"s", "e", "s">>), Word(<<"s">>)>>,
      <<Word(<<"v", "e", "s">>), Word(<<"f">>)>>,
      <<Word(<<"x", "e", "s">>), Word(<<"x">>)>>,
      <<Word(<<"z", "e", "s">>), Word(<<"z">>)>>,
      <<Word(<<"c", "h", "e", "s">>), Word(<<"c", "h">>)>>,
      <<Word(<<"s", "h", "e", "s">>), Word(<<"s", "h">>)>>,
      <<Word(<<"m", "e", "n">>), Word(<<"m", "a", "n">>)>>,
      <<Word(<<"i", "e", "s">>), Word(<<"y">>)>>>>

\* str.endswith
EndsWith(form, old) ==
    Len(form) >= Len(old)
      /\ SubSeq(form, Len(form) - Len(old) + 1, Len(form)) = old

\* apply_rules: every form with every ending it has replaced, form by form
\* and rule by rule
RECURSIVE RulesOnForm(_, _)
RulesOnForm(form, k) ==
    IF k > Len(NounSubstitutions) THEN <<>>
    ELSE LET old == NounSubstitutions[k][1]
             new == NounSubstitutions[k][2]
         IN  (IF EndsWith(form, old)
              THEN <<SubSeq(form, 1, Len(form) - Len(old)) \o new>>
              ELSE <<>>)
                 \o RulesOnForm(form, k + 1)

RECURSIVE ApplyRules(_)
ApplyRules(forms) ==
    IF forms = <<>> THEN <<>>
    ELSE RulesOnForm(Head(forms), 1) \o ApplyRules(Tail(forms))

\* filter_forms: the forms that are noun lemmas, each once, in their order
RECURSIVE FilterForms(_, _)
FilterForms(forms, seen) ==
    IF forms = <<>> THEN <<>>
    ELSE IF Head(forms) \in WordNetNouns /\ Head(forms) \notin seen
         THEN <<Head(forms)>>
                 \o FilterForms(Tail(forms), seen \cup {Head(forms)})
         ELSE FilterForms(Tail(forms), seen)

\* step 3 of _morphy: the rules applied again and again until a lemma comes
\* out or no form is left
RECURSIVE MorphyAgain(_)
MorphyAgain(forms) ==
    IF forms = <<>> THEN <<>>
    ELSE LET again == ApplyRules(forms)
             results == FilterForms(again, {})
         IN  IF results # <<>> THEN results ELSE MorphyAgain(again)

\* WordNetCorpusReader._morphy(form, NOUN): the exception list first, then
\* the word and the forms the rules give
Morphy(form) ==
    LET excs == {e \in NounExceptions : e[1] = form}
        forms == ApplyRules(<<form>>)
        results == FilterForms(<<form>> \o forms, {})
    IN  IF excs # {}
        THEN FilterForms(<<form>> \o (CHOOSE e \in excs : TRUE)[2], {})
        ELSE IF results # <<>> THEN results ELSE MorphyAgain(forms)

\* WordNetLemmatizer.lemmatize(word): min(lemmas, key=len), the first of the
\* shortest lemmas, and the word itself when there is none
Lemmatize(word) ==
    LET lemmas == Morphy(word)
        first == CHOOSE i \in 1..Len(lemmas) :
                    /\ \A j \in 1..Len(lemmas) : Len(lemmas[i]) <= Len(lemmas[j])
                    /\ \A j \in 1..(i - 1) : Len(lemmas[j]) > Len(lemmas[i])
    IN  IF lemmas = <<>> THEN word ELSE lemmas[first]

RECURSIVE DropStopAndLemmatize(_)
DropStopAndLemmatize(words) ==
    IF words = <<>> THEN <<>>
    ELSE (IF Head(words) \notin StopWords THEN <<Lemmatize(Head(words))>> ELSE <<>>)
             \o DropStopAndLemmatize(Tail(words))

\* " ".join(words)
RECURSIVE Join(_)
Join(words) ==
    IF words = <<>> THEN <<>>
    ELSE IF Len(words) = 1 THEN Head(words)
         ELSE Head(words) \o <<32>> \o Join(Tail(words))

PreprocessResume(text) ==
    LET t1 == FixSpacing(text)
        t2 == Lower(t1)
        t3 == RemoveSpecial(t2)
        t4 == Strip(CollapseSpaces(t3))
        words == WordTokenize(t4)
    IN  Join(DropStopAndLemmatize(words))

\* The characters the input texts are drawn from: "a" (97, a stopword on its
\* own), "B" (66), "1" (49), "-" (45), the space (32), the carriage return
\* of a CRLF line end (13), a decimal digit outside ASCII (1635, ARABIC-INDIC
\* DIGIT THREE) and two upper-case letters outside ASCII: 8490, KELVIN SIGN,
\* whose lower case is the ASCII k, and 304, I WITH DOT ABOVE, whose lower
\* case is two characters, the first of them the stopword "i".
Alphabet == {97, 66, 49, 45, 32, 13, 1635, 8490, 304}

\* texts with words that the tokenizer splits and the lemmatizer changes:
\* "dogs", "churches" (a rule), "abaci" (the exception list), "wanna" and
\* "cannot" (contractions)
SampleTexts ==
    {Word(<<"d", "o", "g", "s">>),
     Word(<<"c", "h", "u", "r", "c", "h", "e", "s">>),
     Word(<<"a", "b", "a", "c", "i">>),
     Word(<<"w", "a", "n", "n", "a">>),
     Word(<<"c", "a", "n", "n", "o", "t">>)}

Texts == UNION {[1..n -> Alphabet] : n \in 0..MaxLen} \cup SampleTexts



TextInit ==
    /\ resume_text \in Texts
    /\ fixed = <<>>
    /\ cleaned = <<>>
    /\ cleaned_again = <<>>
    /\ tpc = "input"

CallFixSpacing ==
    /\ tpc = "input"
    /\ fixed' = FixSpacing(resume_text)
    /\ tpc' = "fixed"
    /\ UNCHANGED <<resume_text, cleaned, cleaned_again>>
    /\ UNCHANGED <<rvars, lvars, mvars, qvars, svars, cvars, pvars>>

CallPreprocessResume ==
    /\ tpc \in {"input", "fixed"}
    /\ cleaned' = PreprocessResume(resume_text)
    /\ tpc' = "cleaned"
    /\ UNCHANGED <<resume_text, fixed, cleaned_again>>
    /\ UNCHANGED <<rvars, lvars, mvars, qvars, svars, cvars, pvars>>

\* the normalizer applied to its own output
CallPreprocessAgain ==
    /\ tpc = "cleaned"
    /\ cleaned_again' = PreprocessResume(cleaned)
    /\ tpc' = "cleaned_again"
    /\ UNCHANGED <<resume_text, fixed, cleaned>>
    /\ UNCHANGED <<rvars, lvars, mvars, qvars, svars, cvars, pvars>>

TextNext == CallFixSpacing \/ CallPreprocessResume \/ CallPreprocessAgain


(***************************************************************************)
(* Properties of the text normalizer.                                      *)
(***************************************************************************)
Chars(t) == {t[i] : i \in 1..Len(t)}

\* C7: preprocess_resume is idempotent: normalizing its own output gives the
\* same text.
C7_Idempotent ==
    tpc = "cleaned_again" => cleaned_again = cleaned

\* C8: the output of preprocess_resume holds only a-z, 0-9 and the single
\* space, with no leading, trailing or doubled space.
C8_OutputAlphabet ==
    tpc \in {"cleaned", "cleaned_again"} =>
        /\ Chars(cleaned) \subseteq LowerAZ \cup Digits09 \cup {32}
        /\ cleaned # <<>> => cleaned[1] # 32 /\ cleaned[Len(cleaned)] # 32
        /\ \A i \in 1..(Len(cleaned) - 1) : ~(cleaned[i] = 32 /\ cleaned[i + 1] = 32)

\* punctuation ("-"), an upper-case letter ("B") and whitespace go in, two
\* words come out
C8_Witness ==
    /\ tpc = "cleaned"
    /\ {45, 66} \subseteq Chars(resume_text)
    /\ Chars(resume_text) \cap Whitespace # {}
    /\ 32 \in Chars(cleaned)

\* cased letters outside ASCII: KELVIN SIGN, E WITH ACUTE and I WITH DOT
\* ABOVE; e with acute
OtherUpper == {8490, 201, 304}
OtherLower == {233}

\* a lower-case letter followed by an upper-case one, or a letter next to a
\* digit, with the letters of every script
LetterBoundary(c, d) ==
    \/ (IsLower(c) \/ c \in OtherLower) /\ (IsUpper(d) \/ d \in OtherUpper)
    \/ (IsAlpha(c) \/ c \in OtherLower \cup OtherUpper) /\ IsDigit(d)
    \/ IsDigit(c) /\ (IsAlpha(d) \/ d \in OtherLower \cup OtherUpper)

\* a boundary where fix_spacing inserts a space: the letters are those of
\* [a-z], [A-Z] and [a-zA-Z], the digits those of \d
Boundary(c, d) ==
    \/ IsLower(c) /\ IsUpper(d)
    \/ IsAlpha(c) /\ IsDigit(d)
    \/ IsDigit(c) /\ IsAlpha(d)

\* the text with one space put in at every boundary, and nothing else changed
WithBoundarySpaces(t) ==
    InsertWhere(t, [i \in 1..Len(t) |-> i > 1 /\ Boundary(t[i - 1], t[i])])

\* C9 as stated: fix_spacing only inserts single spaces, and in its output no
\* lower-case letter is followed by an upper-case letter and no letter is
\* next to a digit.
C9_NoLetterBoundaryLeft ==
    tpc = "fixed" =>
        /\ KeepChars(fixed, Chars(fixed) \ {32}) =
              KeepChars(resume_text, Chars(resume_text) \ {32})
        /\ \A i \in 1..(Len(fixed) - 1) : ~LetterBoundary(fixed[i], fixed[i + 1])

\* C9 amended: fix_spacing inserts one space at every boundary between an
\* ASCII lower-case and an ASCII upper-case letter and between an ASCII
\* letter and a decimal digit, and changes nothing else, so that its output
\* has no such boundary left; letters outside ASCII are not split.
C9_FixSpacing ==
    tpc = "fixed" =>
        /\ fixed = WithBoundarySpaces(resume_text)
        /\ \A i \in 1..(Len(fixed) - 1) : ~Boundary(fixed[i], fixed[i + 1])

\* the scaled example of the specification: "aB1B" becomes "a B 1 B"
C9_Witness ==
    /\ tpc = "fixed"
    /\ resume_text = <<97, 66, 49, 66>>
    /\ fixed = <<97, 32, 66, 32, 49, 32, 66>>

(***************************************************************************)
(* Model lifecycle: initialize_system (app.py) and train_or_load_models    *)
(* (resume_job_matcher/utils/job_matcher.py) over successive process       *)
(* startups, with the files of the models directory.                       *)
(***************************************************************************)
MatchingFile == "matching_model.h5"
CategoryFile == "category_model.h5"
EncoderFile == "label_encoder.pkl"

Apps == {"app", "resume_job_matcher"}

\* the files a startup of the app looks for
ArtifactsOf(a) ==
    IF a = "app" THEN {MatchingFile, CategoryFile, EncoderFile}
    ELSE {MatchingFile, CategoryFile}

\* app.py: os.path.exists(matching) and os.path.exists(category) and
\*         os.path.exists(label_encoder)
\* job_matcher.py: os.path.exists(matching) and os.path.exists(category)
\* faulty variant: the files are never found
ModelsExist_Never(a, fs) == FALSE

ModelsExist(a, fs) == ArtifactsOf(a) \subseteq fs

\* LabelEncoder.fit: classes_ are the distinct categories in sorted order;
\* a category is encoded as its position in classes_
CategoryOrder == <<"DataScience", "WebDev">>

RECURSIVE ClassesFrom(_, _)
ClassesFrom(order, cats) ==
    IF order = <<>> THEN <<>>
    ELSE (IF Head(order) \in cats THEN <<Head(order)>> ELSE <<>>)
             \o ClassesFrom(Tail(order), cats)

FitLabelEncoder(cats) == ClassesFrom(CategoryOrder, cats)

\* no encoder / no model (classes_ of a fitted encoder are never empty)
NoClasses == <<>>

\* the contents a CSV can have: at least one posting
CsvContents == (SUBSET Categories) \ {{}}


LifeInit ==
    /\ app \in Apps
    /\ files \in SUBSET ArtifactsOf(app)
    /\ lpc = "down"
    /\ branch = "none"
    /\ fitted = {}
    /\ startups = 0
    /\ returned_untouched = FALSE
    /\ later = FALSE
    /\ csv_categories \in CsvContents
    /\ checked_files = {}
    /\ label_encoder = NoClasses
    /\ model_classes = NoClasses
    \* files already there were written by an earlier run on this catalog
    /\ disk_model_classes =
          IF CategoryFile \in files THEN FitLabelEncoder(csv_categories) ELSE NoClasses
    /\ disk_encoder_classes =
          IF EncoderFile \in files THEN FitLabelEncoder(csv_categories) ELSE NoClasses

\* the process is started and reaches the loader
StartProcess ==
    /\ lpc = "down"
    /\ startups < MaxStartups
    /\ startups' = startups + 1
    /\ lpc' = "check"
    /\ branch' = "none"
    /\ fitted' = {}
    /\ later' = returned_untouched
    /\ UNCHANGED <<app, files, returned_untouched>>
    \* job_matcher.py fits its label encoder on the catalog, in
    \* load_models_and_data, before train_or_load_models is called
    /\ label_encoder' =
          IF app = "resume_job_matcher" THEN FitLabelEncoder(csv_categories)
          ELSE NoClasses
    /\ model_classes' = NoClasses
    /\ checked_files' = {}
    /\ UNCHANGED <<csv_categories, disk_model_classes, disk_encoder_classes>>
    /\ UNCHANGED <<rvars, tvars, qvars, svars, cvars, pvars>>

\* the if that chooses between loading and training
CheckArtifacts ==
    /\ lpc = "check"
    /\ IF ModelsExist(app, files)
       THEN branch' = "load" /\ lpc' = "load"
       ELSE branch' = "train" /\ lpc' = "fit_matching"
    /\ UNCHANGED <<app, files, fitted, startups, returned_untouched, later>>
    /\ checked_files' = files
    /\ UNCHANGED <<csv_categories, label_encoder, model_classes,
                   disk_model_classes, disk_encoder_classes>>
    /\ UNCHANGED <<rvars, tvars, qvars, svars, cvars, pvars>>

\* the label encoder after the load branch: app.py replaces it by the
\* pickled one, job_matcher.py keeps the one it fitted on the catalog
LoadedEncoder(a, fitted_now, pickled) ==
    IF a = "app" THEN pickled ELSE fitted_now

\* load_label_encoder: pickle.load raises EOFError on the empty file that a
\* startup killed between open(..., "wb") and pickle.dump has left
EncoderReadable(a, fs, pickled) ==
    a = "app" => (EncoderFile \in fs /\ pickled # NoClasses)

\* load_trained_models / load_label_encoder, tf.keras.models.load_model: the
\* files are read (a missing or an empty file raises, which StopProcess
\* covers) and the loader returns
LoadModels ==
    /\ lpc = "load"
    /\ ArtifactsOf(app) \subseteq files
    /\ EncoderReadable(app, files, disk_encoder_classes)
    /\ lpc' = "returned"
    /\ returned_untouched' = TRUE
    /\ UNCHANGED <<app, files, branch, fitted, startups, later>>
    /\ model_classes' = disk_model_classes
    /\ label_encoder' = LoadedEncoder(app, label_encoder, disk_encoder_classes)
    /\ UNCHANGED <<csv_categories, checked_files, disk_model_classes,
                   disk_encoder_classes>>
    /\ UNCHANGED <<rvars, tvars, qvars, svars, cvars, pvars>>

\* matching_model.fit(...)
FitMatching ==
    /\ lpc = "fit_matching"
    /\ fitted' = fitted \cup {"matching"}
    /\ lpc' = "fit_category"
    /\ UNCHANGED <<app, files, branch, startups, returned_untouched, later>>
    \* train_models of model_utils.py fits the label encoder first
    /\ label_encoder' =
          IF app = "app" THEN FitLabelEncoder(csv_categories) ELSE label_encoder
    /\ UNCHANGED <<csv_categories, checked_files, model_classes,
                   disk_model_classes, disk_encoder_classes>>
    /\ UNCHANGED <<rvars, tvars, qvars, svars, cvars, pvars>>

\* category_model.fit(...)
FitCategory ==
    /\ lpc = "fit_category"
    /\ fitted' = fitted \cup {"category"}
    /\ lpc' = "save_matching"
    /\ UNCHANGED <<app, files, branch, startups, returned_untouched, later>>
    \* y_cat = df['category_encoded']
    /\ model_classes' = label_encoder
    /\ UNCHANGED <<csv_categories, checked_files, label_encoder,
                   disk_model_classes, disk_encoder_classes>>
    /\ UNCHANGED <<rvars, tvars, qvars, svars, cvars, pvars>>

\* matching_model.save(matching_model_path)
SaveMatching ==
    /\ lpc = "save_matching"
    /\ files' = files \cup {MatchingFile}
    /\ lpc' = "save_category"
    /\ UNCHANGED <<app, branch, fitted, startups, returned_untouched, later>>
    /\ UNCHANGED mvars
    /\ UNCHANGED <<rvars, tvars, qvars, svars, cvars, pvars>>

\* category_model.save(category_model_path); train_or_load_models returns
\* after it, initialize_system goes on to save_label_encoder
SaveCategory ==
    /\ lpc = "save_category"
    /\ files' = files \cup {CategoryFile}
    /\ IF app = "app"
       THEN lpc' = "save_encoder" /\ UNCHANGED returned_untouched
       ELSE lpc' = "returned" /\ returned_untouched' = TRUE
    /\ UNCHANGED <<app, branch, fitted, startups, later>>
    /\ disk_model_classes' = model_classes
    /\ UNCHANGED <<csv_categories, checked_files, label_encoder, model_classes,
                   disk_encoder_classes>>
    /\ UNCHANGED <<rvars, tvars, qvars, svars, cvars, pvars>>

\* save_label_encoder, open(..., "wb"): the file is created, or emptied when
\* it was there
OpenEncoderFile ==
    /\ lpc = "save_encoder"
    /\ files' = files \cup {EncoderFile}
    /\ lpc' = "dump_encoder"
    /\ UNCHANGED <<app, branch, fitted, startups, returned_untouched, later>>
    /\ disk_encoder_classes' = NoClasses
    /\ UNCHANGED <<csv_categories, checked_files, label_encoder, model_classes,
                   disk_model_classes>>
    /\ UNCHANGED <<rvars, tvars, qvars, svars, cvars, pvars>>

\* save_label_encoder, pickle.dump(label_encoder, f) and the close of the
\* file; initialize_system returns
SaveEncoder ==
    /\ lpc = "dump_encoder"
    /\ lpc' = "returned"
    /\ returned_untouched' = TRUE
    /\ UNCHANGED <<app, files, branch, fitted, startups, later>>
    /\ disk_encoder_classes' = label_encoder
    /\ UNCHANGED <<csv_categories, checked_files, label_encoder, model_classes,
                   disk_model_classes>>
    /\ UNCHANGED <<rvars, tvars, qvars, svars, cvars, pvars>>

\* the process ends: it is shut down after serving, killed during startup,
\* or an exception of a step ends the startup
StopProcess ==
    /\ lpc # "down"
    /\ lpc' = "down"
    /\ UNCHANGED <<app, files, branch, fitted, startups, returned_untouched, later>>
    /\ UNCHANGED mvars
    /\ UNCHANGED <<rvars, tvars, qvars, svars, cvars, pvars>>

\* outside the program, between two runs of the process: a file of the
\* models directory is removed
RemoveArtifact ==
    /\ lpc = "down"
    /\ \E f \in files :
          /\ files' = files \ {f}
          /\ disk_model_classes' =
                IF f = CategoryFile THEN NoClasses ELSE disk_model_classes
          /\ disk_encoder_classes' =
                IF f = EncoderFile THEN NoClasses ELSE disk_encoder_classes
    /\ UNCHANGED <<csv_categories, checked_files, label_encoder, model_classes>>
    /\ returned_untouched' = FALSE
    /\ later' = FALSE
    /\ UNCHANGED <<app, lpc, branch, fitted, startups>>
    /\ UNCHANGED <<rvars, tvars, qvars, svars, cvars, pvars>>

\* outside the program, between two runs of the process: postings are added
\* to or removed from the catalog CSV, which changes the categories in it
EditCatalog ==
    /\ lpc = "down"
    /\ csv_categories' \in CsvContents \ {csv_categories}
    /\ UNCHANGED <<checked_files, label_encoder, model_classes,
                   disk_model_classes, disk_encoder_classes>>
    /\ UNCHANGED lvars
    /\ UNCHANGED <<rvars, tvars, qvars, svars, cvars, pvars>>

LifeNext ==
    \/ StartProcess
    \/ CheckArtifacts
    \/ LoadModels
    \/ FitMatching
    \/ FitCategory
    \/ SaveMatching
    \/ SaveCategory
    \/ OpenEncoderFile
    \/ SaveEncoder
    \/ StopProcess
    \/ RemoveArtifact
    \/ EditCatalog

(***************************************************************************)
(* Properties of the model lifecycle.                                      *)
(***************************************************************************)
\* C10: a startup that took the training branch has fitted both networks and
\* written its artifacts when it returns, and a startup begun after an
\* earlier one returned, the files untouched since, takes the load branch and
\* fits nothing.
C10_TrainOnceThenLoad ==
    /\ (lpc = "returned" /\ branch = "train") =>
          /\ fitted = {"matching", "category"}
          /\ ArtifactsOf(app) \subseteq files
    /\ (later /\ lpc \notin {"down", "check"}) =>
          /\ branch = "load"
          /\ fitted = {}

\* the third startup loads what the first one trained and saved
C10_Witness ==
    /\ later
    /\ lpc = "returned"
    /\ branch = "load"
    /\ startups = 3

AllThree == {MatchingFile, CategoryFile, EncoderFile}

\* C11: three artifacts are persisted; a startup takes the load branch exactly
\* when all three were present at its test, and a startup that trained has
\* written all three when it returns.
C11_SkipIffAllThree ==
    /\ lpc \notin {"down", "check"} =>
          (branch = "load" <=> AllThree \subseteq checked_files)
    /\ (lpc = "returned" /\ branch = "train") => AllThree \subseteq files

\* C12: in every run the label encoder that decodes the classifier's index
\* is the mapping the loaded category model was trained with.
C12_EncoderMatchesModel ==
    lpc = "returned" => label_encoder = model_classes

(***************************************************************************)
(* One uploaded resume going through the try block of app.py (lines        *)
(* 172-254) or of resume_job_matcher/app.py (lines 214-283).               *)
(***************************************************************************)
\* endings of uploaded_file.name
Extensions == {".pdf", ".docx", ".PDF", ".DOCX"}

\* process_resume: name.endswith('.pdf') or name.endswith('.docx'); str.endswith
\* compares case-sensitively
\* faulty variant: no test of the name
SupportedFormat_Any(ext) == TRUE

SupportedFormat(ext) == ext \in {".pdf", ".docx"}

\* the first statement of the try block: process_resume tests the name first,
\* app.py goes straight to extract_text_from_pdf
FirstStage(a) == IF a = "resume_job_matcher" THEN "format" ELSE "extract"

\* The order of the statements: extraction, preprocess_resume, the SBERT
\* encoding, the category prediction, the match scores and the building of
\* the recommendations, and only then the rendering.
\* faulty variant: the category is rendered as soon as it is predicted
StageAfter_ShowEarly(stage) ==
    CASE stage = "format" -> "extract"
      [] stage = "extract" -> "normalize"
      [] stage = "normalize" -> "embed"
      [] stage = "embed" -> "predict"
      [] stage = "predict" -> "show_category"
      [] stage = "show_category" -> "score"
      [] stage = "score" -> "show_cards"
      [] OTHER -> "ended"

StageAfter(stage) ==
    CASE stage = "format" -> "extract"
      [] stage = "extract" -> "normalize"
      [] stage = "normalize" -> "embed"
      [] stage = "embed" -> "predict"
      [] stage = "predict" -> "score"
      [] stage = "score" -> "show_category"
      [] stage = "show_category" -> "show_cards"
      [] OTHER -> "ended"

\* the stages that compute: any of them can raise
ComputingStages == {"extract", "normalize", "embed", "predict", "score"}

\* the length of the sequence the card loop runs over:
\* filtered_recommendations[:10] in app.py, recommendations in
\* resume_job_matcher/app.py
CardsToShow(a, filtered) ==
    IF a = "app" THEN Min(filtered, DisplayLimit) ELSE filtered

\* The inputs of one run of the script.  app.py, lines 210-212: st.selectbox
\* returns "All Categories" or, when the user picked one before this run,
\* one of rec_categories, the categories of the recommendations;
\* resume_job_matcher/app.py has no filter.  Lines 221-224: a selected
\* category keeps the recommendations of that category, between 1 and n_recs
\* of them, and none when it is the nan of an empty category cell (nan == nan
\* is False); without a selection all stay.
ReqInit ==
    /\ qapp \in Apps
    /\ upload_ext \in Extensions
    /\ n_recs \in 0..MaxRows
    /\ category_filter \in (IF qapp = "app" /\ n_recs > 0 THEN BOOLEAN ELSE {FALSE})
    /\ n_filtered \in (IF category_filter THEN 0..n_recs ELSE {n_recs})
    /\ qstage = "uploaded"
    /\ raised_in = "none"
    /\ extracted = FALSE
    /\ normalized = FALSE
    /\ category_shown = FALSE
    /\ cards_shown = 0
    /\ errors_shown = 0

\* if uploaded_file is not None: try:
BeginRequest ==
    /\ qstage = "uploaded"
    /\ qstage' = FirstStage(qapp)
    /\ UNCHANGED <<qapp, upload_ext, n_recs, category_filter, n_filtered,
                   raised_in, extracted, normalized, category_shown,
                   cards_shown, errors_shown>>
    /\ UNCHANGED <<rvars, tvars, lvars, mvars, svars, cvars, pvars>>

\* process_resume: the test of the file name; the else branch raises
\* ValueError, which the except block of the app turns into st.error
CheckFormat ==
    /\ qstage = "format"
    /\ IF SupportedFormat(upload_ext)
       THEN /\ qstage' = StageAfter(qstage)
            /\ UNCHANGED <<raised_in, errors_shown>>
       ELSE /\ qstage' = "ended"
            /\ raised_in' = "format"
            /\ errors_shown' = errors_shown + 1
    /\ UNCHANGED <<qapp, upload_ext, n_recs, category_filter, n_filtered,
                   extracted, normalized, category_shown, cards_shown>>
    /\ UNCHANGED <<rvars, tvars, lvars, mvars, svars, cvars, pvars>>

\* extract_text_from_pdf / docx2txt.process
ExtractText ==
    /\ qstage = "extract"
    /\ extracted' = TRUE
    /\ qstage' = StageAfter(qstage)
    /\ UNCHANGED <<qapp, upload_ext, n_recs, category_filter, n_filtered,
                   raised_in, normalized, category_shown, cards_shown,
                   errors_shown>>
    /\ UNCHANGED <<rvars, tvars, lvars, mvars, svars, cvars, pvars>>

\* preprocess_resume
NormalizeText ==
    /\ qstage = "normalize"
    /\ normalized' = TRUE
    /\ qstage' = StageAfter(qstage)
    /\ UNCHANGED <<qapp, upload_ext, n_recs, category_filter, n_filtered,
                   raised_in, extracted, category_shown, cards_shown,
                   errors_shown>>
    /\ UNCHANGED <<rvars, tvars, lvars, mvars, svars, cvars, pvars>>

\* sbert_model.encode, the category prediction, the match scores and the
\* recommendation list: each returns and the next statement is reached
Compute ==
    /\ qstage \in {"embed", "predict", "score"}
    /\ qstage' = StageAfter(qstage)
    /\ UNCHANGED <<qapp, upload_ext, n_recs, category_filter, n_filtered,
                   raised_in, extracted, normalized, category_shown,
                   cards_shown, errors_shown>>
    /\ UNCHANGED <<rvars, tvars, lvars, mvars, svars, cvars, pvars>>

\* a computing stage raises; the except block shows the error and the
\* request is over
StageRaises ==
    /\ qstage \in ComputingStages
    /\ raised_in' = qstage
    /\ errors_shown' = errors_shown + 1
    /\ qstage' = "ended"
    /\ UNCHANGED <<qapp, upload_ext, n_recs, category_filter, n_filtered,
                   extracted, normalized, category_shown, cards_shown>>
    /\ UNCHANGED <<rvars, tvars, lvars, mvars, svars, cvars, pvars>>

\* the st.markdown with the predicted category
ShowCategory ==
    /\ qstage = "show_category"
    /\ category_shown' = TRUE
    /\ qstage' = StageAfter(qstage)
    /\ UNCHANGED <<qapp, upload_ext, n_recs, category_filter, n_filtered,
                   raised_in, extracted, normalized, cards_shown,
                   errors_shown>>
    /\ UNCHANGED <<rvars, tvars, lvars, mvars, svars, cvars, pvars>>

\* one pass of the card loop
ShowCard ==
    /\ qstage = "show_cards"
    /\ cards_shown < CardsToShow(qapp, n_filtered)
    /\ cards_shown' = cards_shown + 1
    /\ UNCHANGED <<qapp, upload_ext, n_recs, category_filter, n_filtered,
                   qstage, raised_in, extracted, normalized, category_shown,
                   errors_shown>>
    /\ UNCHANGED <<rvars, tvars, lvars, mvars, svars, cvars, pvars>>

\* app.py: rec['job_description'][:300] raises TypeError for a posting whose
\* description is empty in the CSV (pandas reads it as a float NaN)
CardRaises ==
    /\ qapp = "app"
    /\ qstage = "show_cards"
    /\ cards_shown < CardsToShow(qapp, n_filtered)
    /\ raised_in' = "show_cards"
    /\ errors_shown' = errors_shown + 1
    /\ qstage' = "ended"
    /\ UNCHANGED <<qapp, upload_ext, n_recs, category_filter, n_filtered,
                   extracted, normalized, category_shown, cards_shown>>
    /\ UNCHANGED <<rvars, tvars, lvars, mvars, svars, cvars, pvars>>

\* the card loop is through
FinishRequest ==
    /\ qstage = "show_cards"
    /\ cards_shown = CardsToShow(qapp, n_filtered)
    /\ qstage' = StageAfter(qstage)
    /\ UNCHANGED <<qapp, upload_ext, n_recs, category_filter, n_filtered,
                   raised_in, extracted, normalized, category_shown,
                   cards_shown, errors_shown>>
    /\ UNCHANGED <<rvars, tvars, lvars, mvars, svars, cvars, pvars>>

ReqNext ==
    \/ BeginRequest
    \/ CheckFormat
    \/ ExtractText
    \/ NormalizeText
    \/ Compute
    \/ StageRaises
    \/ ShowCategory
    \/ ShowCard
    \/ CardRaises
    \/ FinishRequest

(***************************************************************************)
(* Properties of the request's error handling.                             *)
(***************************************************************************)
\* C13: an exception of extraction, normalization, embedding or scoring is
\* caught once, the error is shown, and neither the category prediction nor
\* a card has been rendered for the request.
C13_NoPartialResults ==
    raised_in \in ComputingStages =>
        /\ qstage = "ended"
        /\ errors_shown = 1
        /\ ~category_shown
        /\ cards_shown = 0

\* the last computing stage raises, with recommendations that would have
\* been rendered
C13_Witness ==
    /\ raised_in = "score"
    /\ n_recs > 0
    /\ errors_shown = 1

\* C14: for a name ending in neither ".pdf" nor ".docx" process_resume raises
\* before any extraction or normalization, and the app shows an error and no
\* recommendation.
C14_UnsupportedFormat ==
    (qapp = "resume_job_matcher" /\ upload_ext \notin {".pdf", ".docx"}) =>
        /\ ~extracted
        /\ ~normalized
        /\ ~category_shown
        /\ cards_shown = 0
        /\ qstage \in {"uploaded", "format", "ended"}
        /\ qstage = "ended" => (raised_in = "format" /\ errors_shown = 1)

\* "resume.PDF" has been refused
C14_Witness ==
    /\ qapp = "resume_job_matcher"
    /\ upload_ext = ".PDF"
    /\ qstage = "ended"
    /\ raised_in = "format"
    /\ errors_shown = 1

(***************************************************************************)
(* Script runs of one server process.  Streamlit runs the script from the  *)
(* top on every page load and every upload, one browser session at a time  *)
(* per thread; st.cache_resource keeps the loader's return value for the   *)
(* process and st.session_state belongs to one browser session.            *)
(***************************************************************************)
Sessions == {"s1", "s2"}

\* None, and the object of no loader execution
NoObject == 0

\* the six fields of st.session_state next to models_loaded
Fields == {"sbert_model", "job_df", "job_embeddings", "matching_model",
           "category_model", "label_encoder"}

\* st.session_state before line 156 has run in the session
FreshSession ==
    [defined |-> FALSE, models_loaded |-> FALSE,
     fields |-> [f \in Fields |-> NoObject]]

\* lines 156-163
InitializedSession ==
    [defined |-> TRUE, models_loaded |-> FALSE,
     fields |-> [f \in Fields |-> NoObject]]

\* the tuple assignment of lines 191-196: every field gets its element of the
\* tuple load_all_models() returned
\* faulty variant: the label encoder is left out
AssignLoaded_SkipEncoder(fields, obj) ==
    [f \in Fields |-> IF f = "label_encoder" THEN fields[f] ELSE obj]

AssignLoaded(fields, obj) == [f \in Fields |-> obj]

\* What a request does to the cached objects: recommend_jobs and
\* predict_category read the catalog, the embeddings, the models and the
\* label encoder (df.loc / df.iloc, values, predict, inverse_transform) and
\* assign to none of them.
\* faulty variant: the request stores into the catalog
AfterRequest_Writes(writes) == 1

AfterRequest(writes) == writes

\* where a script run starts
FirstPos(a) == IF a = "resume_job_matcher" THEN "init_state" ELSE "call_loader"

\* where a script run goes on once the loader call has returned
PosAfterLoader(a) == IF a = "resume_job_matcher" THEN "assign" ELSE "uploader"

\* the objects a request works with: the session's six fields in
\* resume_job_matcher/app.py, the run's variables in app.py
RequestObjects(a, st, objs) ==
    IF a = "resume_job_matcher" THEN {st.fields[f] : f \in Fields} ELSE {objs}

SessInit ==
    /\ sapp \in Apps
    /\ spos = [s \in Sessions |-> "idle"]
    /\ sess = [s \in Sessions |-> FreshSession]
    /\ run_objs = [s \in Sessions |-> NoObject]
    /\ used = [s \in Sessions |-> {}]
    /\ load_raised = [s \in Sessions |-> FALSE]
    /\ cached = NoObject
    /\ cached_writes = 0
    /\ loading_by = "none"
    /\ body_runs = 0
    /\ body_done = 0

\* a page load or an upload reruns the script from the top
StartRun ==
    \E s \in Sessions :
        /\ spos[s] \in {"idle", "stopped"}
        /\ spos' = [spos EXCEPT ![s] = FirstPos(sapp)]
        /\ run_objs' = [run_objs EXCEPT ![s] = NoObject]
        /\ load_raised' = [load_raised EXCEPT ![s] = FALSE]
        /\ UNCHANGED <<sapp, sess, used, cached, cached_writes, loading_by,
                       body_runs, body_done>>
        /\ UNCHANGED <<rvars, tvars, lvars, mvars, qvars, cvars, pvars>>

\* if 'models_loaded' not in st.session_state: ...
InitSessionState ==
    \E s \in Sessions :
        /\ spos[s] = "init_state"
        /\ sess' = [sess EXCEPT ![s] = IF sess[s].defined THEN sess[s]
                                       ELSE InitializedSession]
        /\ spos' = [spos EXCEPT ![s] = "load_try"]
        /\ UNCHANGED <<sapp, run_objs, used, load_raised, cached,
                       cached_writes, loading_by, body_runs, body_done>>
        /\ UNCHANGED <<rvars, tvars, lvars, mvars, qvars, cvars, pvars>>

\* if not st.session_state.models_loaded:
CheckLoaded ==
    \E s \in Sessions :
        /\ spos[s] = "load_try"
        /\ spos' = [spos EXCEPT ![s] = IF sess[s].models_loaded
                                       THEN "uploader" ELSE "call_loader"]
        /\ UNCHANGED <<sapp, sess, run_objs, used, load_raised, cached,
                       cached_writes, loading_by, body_runs, body_done>>
        /\ UNCHANGED <<rvars, tvars, lvars, mvars, qvars, cvars, pvars>>

\* the decorated loader is called and its value is in the cache
CacheHit ==
    \E s \in Sessions :
        /\ spos[s] = "call_loader"
        /\ cached # NoObject
        /\ run_objs' = [run_objs EXCEPT ![s] = cached]
        /\ spos' = [spos EXCEPT ![s] = PosAfterLoader(sapp)]
        /\ UNCHANGED <<sapp, sess, used, load_raised, cached, cached_writes,
                       loading_by, body_runs, body_done>>
        /\ UNCHANGED <<rvars, tvars, lvars, mvars, qvars, cvars, pvars>>

\* the decorated loader is called, nothing is cached: the body starts, one
\* caller at a time
BodyStart ==
    \E s \in Sessions :
        /\ spos[s] = "call_loader"
        /\ cached = NoObject
        /\ loading_by = "none"
        /\ body_runs < MaxLoads
        /\ loading_by' = s
        /\ body_runs' = body_runs + 1
        /\ spos' = [spos EXCEPT ![s] = "in_body"]
        /\ UNCHANGED <<sapp, sess, run_objs, used, load_raised, cached,
                       cached_writes, body_done>>
        /\ UNCHANGED <<rvars, tvars, lvars, mvars, qvars, cvars, pvars>>

\* the body returns: its value is cached and handed to the caller
BodyReturns ==
    \E s \in Sessions :
        /\ spos[s] = "in_body"
        /\ cached' = body_runs
        /\ body_done' = body_done + 1
        /\ loading_by' = "none"
        /\ run_objs' = [run_objs EXCEPT ![s] = body_runs]
        /\ spos' = [spos EXCEPT ![s] = PosAfterLoader(sapp)]
        /\ UNCHANGED <<sapp, sess, used, load_raised, cached_writes, body_runs>>
        /\ UNCHANGED <<rvars, tvars, lvars, mvars, qvars, cvars, pvars>>

\* the body raises (a missing CSV or SBERT directory, a failed load or save):
\* nothing is cached.  resume_job_matcher/app.py shows the error and calls
\* st.stop(); in app.py the exception ends the script run.
BodyRaises ==
    \E s \in Sessions :
        /\ spos[s] = "in_body"
        /\ loading_by' = "none"
        /\ load_raised' = [load_raised EXCEPT ![s] = TRUE]
        /\ spos' = [spos EXCEPT ![s] = "stopped"]
        /\ UNCHANGED <<sapp, sess, run_objs, used, cached, cached_writes,
                       body_runs, body_done>>
        /\ UNCHANGED <<rvars, tvars, lvars, mvars, qvars, cvars, pvars>>

\* (st.session_state.sbert_model, ..., st.session_state.label_encoder) =
\*     load_all_models()
AssignFields ==
    \E s \in Sessions :
        /\ spos[s] = "assign"
        /\ sess' = [sess EXCEPT ![s].fields =
                        AssignLoaded(sess[s].fields, run_objs[s])]
        /\ spos' = [spos EXCEPT ![s] = "set_flag"]
        /\ UNCHANGED <<sapp, run_objs, used, load_raised, cached,
                       cached_writes, loading_by, body_runs, body_done>>
        /\ UNCHANGED <<rvars, tvars, lvars, mvars, qvars, cvars, pvars>>

\* st.session_state.models_loaded = True
SetLoaded ==
    \E s \in Sessions :
        /\ spos[s] = "set_flag"
        /\ sess' = [sess EXCEPT ![s].models_loaded = TRUE]
        /\ spos' = [spos EXCEPT ![s] = "uploader"]
        /\ UNCHANGED <<sapp, run_objs, used, load_raised, cached,
                       cached_writes, loading_by, body_runs, body_done>>
        /\ UNCHANGED <<rvars, tvars, lvars, mvars, qvars, cvars, pvars>>

\* st.file_uploader: with a file the request follows, without one the run
\* is over
Uploader ==
    \E s \in Sessions, uploaded \in BOOLEAN :
        /\ spos[s] = "uploader"
        /\ spos' = [spos EXCEPT ![s] = IF uploaded THEN "request" ELSE "idle"]
        /\ UNCHANGED <<sapp, sess, run_objs, used, load_raised, cached,
                       cached_writes, loading_by, body_runs, body_done>>
        /\ UNCHANGED <<rvars, tvars, lvars, mvars, qvars, cvars, pvars>>

\* the try block is entered: the spinner, and in resume_job_matcher/app.py
\* the progress bar with its hundred time.sleep(0.01); no loaded object has
\* been read for this request
RequestStarts ==
    \E s \in Sessions :
        /\ spos[s] = "request"
        /\ used' = [used EXCEPT ![s] = {}]
        /\ spos' = [spos EXCEPT ![s] = "in_try"]
        /\ UNCHANGED <<sapp, sess, run_objs, load_raised, cached,
                       cached_writes, loading_by, body_runs, body_done>>
        /\ UNCHANGED <<rvars, tvars, lvars, mvars, qvars, cvars, pvars>>

\* process_resume (an unsupported name, a failing extraction or
\* normalization) or, in app.py, extract_text_from_pdf or preprocess_resume
\* raises: the except block ends the request before a loaded object is read
RequestRaisesEarly ==
    \E s \in Sessions :
        /\ spos[s] = "in_try"
        /\ spos' = [spos EXCEPT ![s] = "idle"]
        /\ UNCHANGED <<sapp, sess, run_objs, used, load_raised, cached,
                       cached_writes, loading_by, body_runs, body_done>>
        /\ UNCHANGED <<rvars, tvars, lvars, mvars, qvars, cvars, pvars>>

\* the loaded objects are read and handed to the encoder, the category
\* prediction and recommend_jobs
ProcessUpload ==
    \E s \in Sessions :
        /\ spos[s] = "in_try"
        /\ used' = [used EXCEPT ![s] = RequestObjects(sapp, sess[s], run_objs[s])]
        /\ cached_writes' = AfterRequest(cached_writes)
        /\ spos' = [spos EXCEPT ![s] = "computed"]
        /\ UNCHANGED <<sapp, sess, run_objs, load_raised, cached, loading_by,
                       body_runs, body_done>>
        /\ UNCHANGED <<rvars, tvars, lvars, mvars, qvars, cvars, pvars>>

\* the results are rendered, or the except block shows the error of a
\* computation that raised: the script run is over
RequestEnds ==
    \E s \in Sessions :
        /\ spos[s] = "computed"
        /\ spos' = [spos EXCEPT ![s] = "idle"]
        /\ UNCHANGED <<sapp, sess, run_objs, used, load_raised, cached,
                       cached_writes, loading_by, body_runs, body_done>>
        /\ UNCHANGED <<rvars, tvars, lvars, mvars, qvars, cvars, pvars>>

SessNext ==
    \/ StartRun
    \/ InitSessionState
    \/ CheckLoaded
    \/ CacheHit
    \/ BodyStart
    \/ BodyReturns
    \/ BodyRaises
    \/ AssignFields
    \/ SetLoaded
    \/ Uploader
    \/ RequestStarts
    \/ RequestRaisesEarly
    \/ ProcessUpload
    \/ RequestEnds

(***************************************************************************)
(* Properties of the cached loader and of the session state.               *)
(***************************************************************************)
\* the positions of a script run inside the request's try block
InRequest == {"request", "in_try", "computed"}

\* the parts of C15 that do not count executions: requests work with the
\* cached objects and write to none of them
ReuseAndReadOnly ==
    /\ \A s \in Sessions :
          /\ used[s] # {} => (cached # NoObject /\ used[s] = {cached})
          /\ spos[s] \in InRequest =>
                RequestObjects(sapp, sess[s], run_objs[s]) = {cached}
    /\ cached_writes = 0

\* C15 as stated: over any sequence of script runs the loader body executes
\* once, later requests reuse the loaded objects, and no request writes to
\* them.
C15_BodyExecutesOnce ==
    /\ body_runs <= 1
    /\ ReuseAndReadOnly

\* C15 amended: the loader body returns at most once per process and is never
\* executed again after it has returned (an execution that raises caches
\* nothing, and the next script run executes the body again); every request
\* works with the objects of that one execution and writes to none of them.
C15_BodyReturnsOnce ==
    /\ body_done <= 1
    /\ cached # NoObject =>
          (body_done = 1 /\ cached = body_runs /\ loading_by = "none")
    /\ cached = NoObject => body_done = 0
    /\ ReuseAndReadOnly

\* the first execution raised, the second returned, and both sessions have
\* processed an upload with its objects
C15_Witness ==
    /\ body_runs = 2
    /\ body_done = 1
    /\ \A s \in Sessions : used[s] = {cached}

\* C20: in resume_job_matcher/app.py models_loaded = True implies the six
\* fields are set; a resume is processed only in a run that has models_loaded
\* True; a run whose loading raised leaves models_loaded False and the six
\* fields unassigned and stops before the uploader.
C20_SessionState ==
    sapp = "resume_job_matcher" =>
        \A s \in Sessions :
            /\ sess[s].models_loaded =>
                  \A f \in Fields : sess[s].fields[f] # NoObject
            /\ spos[s] \in InRequest => sess[s].models_loaded
            /\ load_raised[s] =>
                  /\ ~sess[s].models_loaded
                  /\ \A f \in Fields : sess[s].fields[f] = NoObject
                  /\ spos[s] = "stopped"

\* one session has stopped on a loading error while the other, loaded, is
\* processing a resume
C20_Witness ==
    /\ sapp = "resume_job_matcher"
    /\ load_raised["s1"]
    /\ spos["s1"] = "stopped"
    /\ sess["s2"].models_loaded
    /\ spos["s2"] = "computed"

(***************************************************************************)
(* The category prediction: predict_category of utils/model_utils.py and   *)
(* lines 155-159 of job_matcher.recommend_jobs.                            *)
(***************************************************************************)
\* np.argmax: the first index that holds the largest value
\* faulty variant: always the first class
ArgMax_AlwaysFirst(probs) == 1

ArgMax(probs) ==
    CHOOSE i \in 1..Len(probs) :
        /\ \A j \in 1..Len(probs) : probs[j] <= probs[i]
        /\ \A j \in 1..(i - 1) : probs[j] < probs[i]

\* float(category_probs[predicted_category_idx] * 100)
Percent == 100

\* the confidence either implementation returns for a probability
Confidence(v, p) == IF v = "job_matcher" THEN p * Percent ELSE p

\* label_encoder.inverse_transform([idx]) raises ValueError ("y contains
\* previously unseen labels") for an index that is not one of classes_
Decodable(probs, classes) == ArgMax(probs) <= Len(classes)

\* (predicted_category, category_confidence)
PredictCategory(v, probs, classes) ==
    [category |-> classes[ArgMax(probs)],
     confidence |-> Confidence(v, probs[ArgMax(probs)])]

\* the softmax outputs over k classes: non-negative, summing to one
RECURSIVE ProbVectors(_, _)
ProbVectors(k, total) ==
    IF k = 1 THEN {<<total>>}
    ELSE UNION {{<<p>> \o rest : rest \in ProbVectors(k - 1, total - p)} :
                p \in 0..total}

\* The label encoder and the classifier of one call.  The classifier has one
\* output per category of the catalog it was trained on, the encoder one
\* class per category of the catalog it was fitted on; these are two
\* catalogs when the CSV changed since the training (job_matcher refits the
\* encoder at every startup, app.py can load a label_encoder.pkl older than
\* category_model.h5), so the two lengths are independent.
CatInit ==
    /\ cvariant \in Variants
    /\ \E cats \in CsvContents : encoder_classes = FitLabelEncoder(cats)
    /\ \E trained \in CsvContents :
          category_probs \in ProbVectors(Cardinality(trained), ProbScale)
    /\ cpc = "call"
    /\ predicted_category = "none"
    /\ category_confidence = 0

\* the call either returns the pair or raises in inverse_transform
CallPredictCategory ==
    /\ cpc = "call"
    /\ IF Decodable(category_probs, encoder_classes)
       THEN /\ predicted_category' =
                  PredictCategory(cvariant, category_probs, encoder_classes).category
            /\ category_confidence' =
                  PredictCategory(cvariant, category_probs, encoder_classes).confidence
            /\ cpc' = "done"
       ELSE /\ cpc' = "raised"
            /\ UNCHANGED <<predicted_category, category_confidence>>
    /\ UNCHANGED <<cvariant, encoder_classes, category_probs>>
    /\ UNCHANGED <<rvars, tvars, lvars, mvars, qvars, svars, pvars>>

CatNext == CallPredictCategory

\* the returned category is the label of an index holding the largest
\* probability
LabelAtArgMax ==
    \E i \in DOMAIN category_probs \cap DOMAIN encoder_classes :
        /\ \A j \in 1..Len(category_probs) : category_probs[j] <= category_probs[i]
        /\ predicted_category = encoder_classes[i]

\* the first index that holds the largest probability is an index of the
\* label encoder's classes
IndexKnown ==
    \E i \in DOMAIN category_probs \cap DOMAIN encoder_classes :
        /\ \A j \in 1..Len(category_probs) : category_probs[j] <= category_probs[i]
        /\ \A j \in 1..(i - 1) : category_probs[j] < category_probs[i]

\* the largest probability of the vector
MaxProb ==
    CHOOSE p \in 0..ProbScale :
        /\ \E i \in 1..Len(category_probs) : category_probs[i] = p
        /\ \A i \in 1..Len(category_probs) : category_probs[i] <= p

\* C16 as stated: the category is the label at the arg-max index and the
\* confidence is that index's probability, a value in [0, 1], in both
\* implementations.
C16_ConfidenceIsProbability ==
    cpc = "done" =>
        /\ LabelAtArgMax
        /\ category_confidence = MaxProb
        /\ category_confidence <= ProbScale

\* C16 amended: when the arg-max index is an index of the label encoder's
\* classes, the category is the encoder's label at that index and the
\* confidence is that index's probability in predict_category, a value in
\* [0, 1], and one hundred times that probability in
\* job_matcher.recommend_jobs, a percentage in [0, 100]; when the encoder has
\* fewer classes than that index, the call raises and returns nothing.
C16_ConfidenceByVariant ==
    /\ cpc = "done" =>
          /\ IndexKnown
          /\ LabelAtArgMax
          /\ cvariant = "model_utils" =>
                (category_confidence = MaxProb /\ category_confidence <= ProbScale)
          /\ cvariant = "job_matcher" =>
                (category_confidence = Percent * MaxProb
                   /\ category_confidence <= Percent * ProbScale)
    /\ cpc = "raised" =>
          /\ ~IndexKnown
          /\ predicted_category = "none"

\* job_matcher has returned the second class, which holds the larger
\* probability
C16_Witness ==
    /\ cpc = "done"
    /\ cvariant = "job_matcher"
    /\ Len(category_probs) = 2
    /\ category_probs[1] < category_probs[2]
    /\ predicted_category = encoder_classes[2]

(***************************************************************************)
(* The training pairs: prepare_matching_data of utils/model_utils.py and   *)
(* prepare_training_data of job_matcher.py.  A row stands for its          *)
(* embedding.                                                              *)
(***************************************************************************)
\* list(category_groups.groups.keys())
GroupKeys(col) == {col[i] : i \in 1..Len(col)}

\* category_groups.get_group(category).index.values
GetGroup(col, category) == {i \in 1..Len(col) : col[i] = category}

\* the bound of the while loop
Target(v, size, rows) == IF v = "model_utils" THEN Min(size, rows) ELSE size

\* a positive draw: a category, then two of its rows without replacement
\* faulty variant: the two rows are drawn with replacement
PositiveDraws_WithReplacement(col) ==
    {p \in (1..Len(col)) \X (1..Len(col)) : col[p[1]] = col[p[2]]}

PositiveDraws(col) ==
    {p \in (1..Len(col)) \X (1..Len(col)) :
        /\ col[p[1]] = col[p[2]]
        /\ p[1] # p[2]}

\* a negative draw: two categories without replacement, then one row of each
NegativeDraws(col) ==
    {p \in (1..Len(col)) \X (1..Len(col)) : col[p[1]] # col[p[2]]}

CategoryColumns == UNION {[1..n -> Categories] : n \in 0..MaxRows}

SampleInit ==
    /\ pvariant \in Variants
    /\ category_col \in CategoryColumns
    /\ sample_size \in 1..MaxPairs
    /\ X_resume = <<>>
    /\ X_job = <<>>
    /\ y = <<>>
    /\ pairs_created = 0
    /\ ppc = "loop"

InLoop ==
    /\ ppc = "loop"
    /\ pairs_created < Target(pvariant, sample_size, Len(category_col))

\* is_positive, and the category drawn has two rows or more
DrawPositive ==
    /\ InLoop
    /\ \E p \in PositiveDraws(category_col) :
          /\ X_resume' = Append(X_resume, p[1])
          /\ X_job' = Append(X_job, p[2])
          /\ y' = Append(y, 1)
    /\ pairs_created' = pairs_created + 1
    /\ UNCHANGED <<pvariant, category_col, sample_size, ppc>>
    /\ UNCHANGED <<rvars, tvars, lvars, mvars, qvars, svars, cvars>>

\* is_positive, and the category drawn has one row: continue
SkipPositive ==
    /\ InLoop
    /\ \E c \in GroupKeys(category_col) :
          Cardinality(GetGroup(category_col, c)) < 2
    /\ UNCHANGED pvars
    /\ UNCHANGED <<rvars, tvars, lvars, mvars, qvars, svars, cvars>>

\* not is_positive, and there are two categories to draw
DrawNegative ==
    /\ InLoop
    /\ \E p \in NegativeDraws(category_col) :
          /\ X_resume' = Append(X_resume, p[1])
          /\ X_job' = Append(X_job, p[2])
          /\ y' = Append(y, 0)
    /\ pairs_created' = pairs_created + 1
    /\ UNCHANGED <<pvariant, category_col, sample_size, ppc>>
    /\ UNCHANGED <<rvars, tvars, lvars, mvars, qvars, svars, cvars>>

\* np.random.choice raises ValueError: on the negative branch when
\* categories has fewer than two entries (a sample of 2 without
\* replacement), on the positive branch when categories is empty
DrawRaises ==
    /\ InLoop
    /\ Cardinality(GroupKeys(category_col)) < 2
    /\ ppc' = "raised"
    /\ UNCHANGED <<pvariant, category_col, sample_size, X_resume, X_job, y,
                   pairs_created>>
    /\ UNCHANGED <<rvars, tvars, lvars, mvars, qvars, svars, cvars>>

\* the loop condition fails: the three arrays are returned
ReturnPairs ==
    /\ ppc = "loop"
    /\ ~(pairs_created < Target(pvariant, sample_size, Len(category_col)))
    /\ ppc' = "returned"
    /\ UNCHANGED <<pvariant, category_col, sample_size, X_resume, X_job, y,
                   pairs_created>>
    /\ UNCHANGED <<rvars, tvars, lvars, mvars, qvars, svars, cvars>>

SampleNext ==
    \/ DrawPositive
    \/ SkipPositive
    \/ DrawNegative
    \/ DrawRaises
    \/ ReturnPairs

(***************************************************************************)
(* Properties of the training pairs.                                       *)
(***************************************************************************)
\* C18: a pair labelled 1 is two distinct postings of one category, a pair
\* labelled 0 is two postings of different categories, and the three arrays
\* have the same length.
C18_PairLabels ==
    /\ Len(X_resume) = Len(y)
    /\ Len(X_job) = Len(y)
    /\ \A k \in 1..Len(y) :
          /\ y[k] = 1 =>
                /\ X_resume[k] # X_job[k]
                /\ category_col[X_resume[k]] = category_col[X_job[k]]
          /\ y[k] = 0 => category_col[X_resume[k]] # category_col[X_job[k]]

\* arrays returned with a pair of either label
C18_Witness ==
    /\ ppc = "returned"
    /\ \E k \in 1..Len(y) : y[k] = 1
    /\ \E k \in 1..Len(y) : y[k] = 0

\* C19: for a non-empty catalog the sampling loop ends, and ends with exactly
\* the target number of pairs; stated for the runs that have left the loop.
C19_EndsWithTarget ==
    (Len(category_col) > 0 /\ ppc # "loop") =>
        /\ ppc = "returned"
        /\ Len(y) = Target(pvariant, sample_size, Len(category_col))

(***************************************************************************)
(* Specifications.  Each follows one part of the program; the variables of *)
(* the other parts rest at their initial values.                           *)
(***************************************************************************)
RecIdle ==
    /\ variant = "model_utils"
    /\ df = <<>>
    /\ similarity_scores = <<>>
    /\ top_n = 0
    /\ rpc = "start"
    /\ recommendations = <<>>
    /\ selected_category = AllCategories
    /\ sort_option = HighToLow
    /\ displayed = <<>>

TextIdle ==
    /\ resume_text = <<>>
    /\ fixed = <<>>
    /\ cleaned = <<>>
    /\ cleaned_again = <<>>
    /\ tpc = "input"

LifeIdle ==
    /\ app = "app"
    /\ files = {}
    /\ lpc = "down"
    /\ branch = "none"
    /\ fitted = {}
    /\ startups = 0
    /\ returned_untouched = FALSE
    /\ later = FALSE
    /\ csv_categories = Categories
    /\ checked_files = {}
    /\ label_encoder = NoClasses
    /\ model_classes = NoClasses
    /\ disk_model_classes = NoClasses
    /\ disk_encoder_classes = NoClasses

ReqIdle ==
    /\ qapp = "app"
    /\ upload_ext = ".pdf"
    /\ n_recs = 0
    /\ category_filter = FALSE
    /\ n_filtered = 0
    /\ qstage = "uploaded"
    /\ raised_in = "none"
    /\ extracted = FALSE
    /\ normalized = FALSE
    /\ category_shown = FALSE
    /\ cards_shown = 0
    /\ errors_shown = 0

SessIdle ==
    /\ sapp = "app"
    /\ spos = [s \in Sessions |-> "idle"]
    /\ sess = [s \in Sessions |-> FreshSession]
    /\ run_objs = [s \in Sessions |-> NoObject]
    /\ used = [s \in Sessions |-> {}]
    /\ load_raised = [s \in Sessions |-> FALSE]
    /\ cached = NoObject
    /\ cached_writes = 0
    /\ loading_by = "none"
    /\ body_runs = 0
    /\ body_done = 0

CatIdle ==
    /\ cvariant = "model_utils"
    /\ encoder_classes = CategoryOrder
    /\ category_probs = <<ProbScale, 0>>
    /\ cpc = "call"
    /\ predicted_category = "none"
    /\ category_confidence = 0

SampleIdle ==
    /\ pvariant = "model_utils"
    /\ category_col = <<>>
    /\ sample_size = 1
    /\ X_resume = <<>>
    /\ X_job = <<>>
    /\ y = <<>>
    /\ pairs_created = 0
    /\ ppc = "loop"

\* one request of the recommendation pipeline
InitRec == RecInit /\ TextIdle /\ LifeIdle /\ ReqIdle /\ SessIdle /\ CatIdle
    /\ SampleIdle

SpecRec == InitRec /\ [][RecNext]_vars

\* the text normalizer on one input
InitText == TextInit /\ RecIdle /\ LifeIdle /\ ReqIdle /\ SessIdle /\ CatIdle
    /\ SampleIdle

SpecText == InitText /\ [][TextNext]_vars

\* process startups over the models directory
InitLife == LifeInit /\ RecIdle /\ TextIdle /\ ReqIdle /\ SessIdle /\ CatIdle
    /\ SampleIdle

SpecLife == InitLife /\ [][LifeNext]_vars

\* one uploaded resume through the try block of its app
InitReq == ReqInit /\ RecIdle /\ TextIdle /\ LifeIdle /\ SessIdle /\ CatIdle
    /\ SampleIdle

SpecReq == InitReq /\ [][ReqNext]_vars

\* the script runs of two browser sessions in one server process
InitSess == SessInit /\ RecIdle /\ TextIdle /\ LifeIdle /\ ReqIdle /\ CatIdle
    /\ SampleIdle

SpecSess == InitSess /\ [][SessNext]_vars

\* one category prediction
InitCat ==
    CatInit /\ RecIdle /\ TextIdle /\ LifeIdle /\ ReqIdle /\ SessIdle
    /\ SampleIdle

SpecCat == InitCat /\ [][CatNext]_vars

\* one call of the pair sampler
InitSample ==
    SampleInit /\ RecIdle /\ TextIdle /\ LifeIdle /\ ReqIdle /\ SessIdle
    /\ CatIdle

SpecSample == InitSample /\ [][SampleNext]_vars

====
